---- MODULE Spec2Model ----
(***************************************************************************)
(* ViewSB: the analyzer's driver loop (viewsb/analyzer.py), the decoder    *)
(* contract (viewsb/decoder.py), the packet classes (viewsb/packet.py)     *)
(* and the grouping / specializing decoders (viewsb/decoders/grouping.py,  *)
(* viewsb/decoders/standard_requests.py).  Further specifications cover    *)
(* the packet delineator of viewsb/backends/rhododendron.py                *)
(* (SpecDelineator), the URB pairing of viewsb/backends/usbmon.py          *)
(* (SpecUSBMon) and the subordinate descriptors of                         *)
(* viewsb/decoders/standard_descriptors.py (SpecDescriptor).               *)
(*                                                                         *)
(* A packet object is a record over ModelFields.  `id` stands for the      *)
(* identity of the Python object and `type` for its class; every other     *)
(* field is the attribute of the same name.  Python's None is IntNone for  *)
(* numbers and enumerations, NoData for byte strings and "None" for        *)
(* strings.  PIDs, directions, request types and recipients keep the       *)
(* integer values of their IntFlag / IntEnum members.  The attributes      *)
(* bus_number, summary, data_summary, sync_valid, crc_valid and            *)
(* pid_sequence_ok are only ever copied, never read, and are left out.     *)
(***************************************************************************)
EXTENDS Integers, Sequences, FiniteSets, TLC

VARIABLES
    capture,          \* the raw packets the capture backend will produce
    backend_pos,      \* how many of them the backend has emitted
    output_queue,     \* ViewSBBackendProcess.output_queue
    analysis_queue,   \* ViewSBAnalyzer.analysis_queue
    decoders,         \* the buffers of the stateful decoders
    data_queue,       \* ViewSBFrontendProcess.data_queue: what the display got
    pc,               \* where ViewSBAnalyzer.run is
    frontend_alive,   \* frontend.is_alive()
    backend_alive,    \* backend.is_alive()
    next_id,          \* identity given to the next packet object created
    dequeued,         \* ids in the order analysis_queue.get_nowait returned them
    enqueued,         \* what analysis_queue.put received, in order, and from
                      \* which stage (0: the backend)
    consumed,         \* stage -> the packets it handled, in order (0: the
                      \* packets no stage handled)
    last,             \* what the last round of process_analysis_queue did
    termination_event,\* ViewSBBackendProcess.termination_event is set
    delineator,       \* the USBHackDelineator of the Rhododendron backend
    usbmon,           \* the USBMonBackend: pending URBs, what it emitted
    descriptor,       \* the GetConfigurationDescriptorRequest being parsed
    worker            \* the backend object in its process: where
                      \* ViewSBBackend.run is, and which of its methods
                      \* have been called

\* the objects of the other backends, which the analyzer's loop leaves alone
others == <<delineator, usbmon, descriptor>>

vars == <<others, capture, backend_pos, output_queue, analysis_queue, decoders,
          data_queue, pc, frontend_alive, backend_alive, next_id, dequeued,
          enqueued, consumed, last, termination_event, worker>>

----------------------------------------------------------------------------
(* Bounds of the model.                                                    *)

MaxChunks == 2          \* chunks (a transaction or a lone packet) per capture
MaxOutputQueue == 2     \* how far the backend may run ahead of the analyzer

----------------------------------------------------------------------------
(* usb_types.py                                                            *)

IntNone == -1
NoData  == <<-1>>

PID_OUT   == 1
PID_IN    == 9
PID_SOF   == 5
PID_SETUP == 13
PID_DATA0 == 3
PID_DATA1 == 11
PID_ACK   == 2
PID_NAK   == 10
PID_STALL == 14
PID_PING  == 4

CATEGORY_TOKEN     == 1
CATEGORY_HANDSHAKE == 2
CATEGORY_DATA      == 3
CATEGORY_MASK      == 3

DIR_OUT == 0
DIR_IN  == 1

REQUEST_TYPE_STANDARD == 0
RECIPIENT_DEVICE      == 0
RECIPIENT_RESERVED    == 4

\* USBPacketID.category: pid & MASK, the two low bits
category(pid) == pid % (CATEGORY_MASK + 1)
is_token(pid)     == category(pid) = CATEGORY_TOKEN
is_handshake(pid) == category(pid) = CATEGORY_HANDSHAKE
is_data(pid)      == category(pid) = CATEGORY_DATA

\* USBPacketID.direction; only called on OUT, IN and SETUP
direction(pid) ==
    IF pid = PID_SOF THEN IntNone
    ELSE IF pid = PID_SETUP \/ pid = PID_OUT THEN DIR_OUT
    ELSE DIR_IN

\* USBDirection.to_endpoint_address
to_endpoint_address(dir, endpoint_number) ==
    IF dir = DIR_IN THEN endpoint_number + 128 ELSE endpoint_number

\* USBRequestRecipient(value): the enumeration has the members 0..4 only
USBRequestRecipient_valid(v) == v \in RECIPIENT_DEVICE..RECIPIENT_RESERVED

----------------------------------------------------------------------------
(* packet.py: classes, their FIELDS and their constructors                 *)

BaseFields == {"timestamp", "device_address", "endpoint_number", "direction",
               "status", "style", "data", "subordinate_packets"}
USBPacketFields      == BaseFields \cup {"pid"}
USBTransactionFields == BaseFields \cup {"token", "handshake", "data_pid"}
USBTransferFields    == BaseFields \cup {"pid", "handshake"}
SetupFields == {"request_direction", "request_type", "recipient",
                "request_number", "value", "index", "request_length",
                "handshake"}
ControlFields == {"request_type", "recipient", "request_number", "value",
                  "index", "request_length", "stalled"}

ModelFields == {"id", "type"} \cup USBPacketFields \cup USBTransactionFields
               \cup SetupFields \cup ControlFields
               \cup {"crc5", "crc16", "new_address", "configuration_number",
                     "descriptor_number", "descriptor_index"}

DescriptorRequestTypes ==
    {"GetDeviceDescriptorRequest", "GetConfigurationDescriptorRequest",
     "GetStringDescriptorRequest", "GetInterfaceDescriptorRequest",
     "GetEndpointDescriptorRequest", "GetDeviceQualifierDescriptorRequest",
     "GetClassSpecificDescriptorRequest"}

\* ViewSBPacket.get_fields: the union of FIELDS along the class's MRO
get_fields(cls) ==
    CASE cls \in {"USBPacket", "USBStartOfFrame", "USBStartOfFrameCollection",
                  "USBHandshakePacket", "MalformedPacket"} -> USBPacketFields
      [] cls = "USBTokenPacket" -> USBPacketFields \cup {"crc5"}
      [] cls = "USBDataPacket"  -> USBPacketFields \cup {"crc16"}
      [] cls \in {"USBTransaction", "USBDataTransaction"} -> USBTransactionFields
      [] cls \in {"USBSetupTransaction", "USBSetupTransfer"} ->
            USBTransactionFields \cup SetupFields
      [] cls \in {"USBDataTransfer", "USBBulkTransfer", "USBInterruptTransfer",
                  "USBIsochronousTransfer"} ->
            USBTransactionFields \cup USBTransferFields
      [] cls = "USBTransferFragment" -> USBTransferFields
      [] cls = "USBStatusTransfer" -> USBPacketFields \cup {"handshake"}
      [] cls = "USBControlTransfer" -> USBTransferFields \cup ControlFields
      [] cls = "GetStatus" -> USBTransferFields \cup ControlFields
      [] cls = "SetAddressRequest" ->
            USBTransferFields \cup ControlFields \cup {"new_address"}
      [] cls = "SetConfigurationRequest" ->
            USBTransferFields \cup ControlFields \cup {"configuration_number"}
      [] cls \in {"GetDescriptorRequest"} \cup DescriptorRequestTypes ->
            USBTransferFields \cup ControlFields
            \cup {"descriptor_number", "descriptor_index"}

\* the value an attribute has when the constructor was given none
NoneOf(f) ==
    CASE f \in {"data", "crc16"}      -> NoData
      [] f = "subordinate_packets"    -> <<>>
      [] f \in {"style", "stalled"}   -> "None"
      [] OTHER                        -> IntNone

\* ViewSBPacket.__init__ up to the call of validate: the fields of the class
\* are taken from the keyword arguments, everything else is dropped
init_fields(cls, kw, id) ==
    LET raw == [f \in ModelFields |->
                   CASE f = "id"   -> id
                     [] f = "type" -> cls
                     [] f \in get_fields(cls) -> kw[f]
                     [] OTHER -> NoneOf(f)]
    IN  [raw EXCEPT !.style = IF @ = "None" THEN "" ELSE @]

\* bytes.  A payload is a sequence of byte values; len(None) never happens
\* on the paths modelled, `not data` is true of None and of b''
Truthy(data) == data # NoData /\ data # <<>>
StripLast2(data) == SubSeq(data, 1, Len(data) - 2)
Last2(data) ==
    IF Len(data) >= 2 THEN SubSeq(data, Len(data) - 1, Len(data)) ELSE data

RECURSIVE ConcatAcked(_)
\* USBDataTransfer.validate: the data of every subordinate data transaction
\* that has data and was ACKed, in order
ConcatAcked(packets) ==
    IF packets = <<>> THEN <<>>
    ELSE LET p == Head(packets)
         IN (IF /\ p.type = "USBDataTransaction"
                /\ Truthy(p.data)
                /\ p.handshake = PID_ACK
             THEN p.data ELSE <<>>) \o ConcatAcked(Tail(packets))

\* USBPacket, USBStartOfFrame, USBStartOfFrameCollection, USBHandshakePacket:
\* validate parses pid, which leaves a USBPacketID unchanged
new_USBPacket(cls, kw, id) == init_fields(cls, kw, id)

\* USBTokenPacket, USBDataPacket: validate does nothing
new_USBTokenPacket(kw, id) == init_fields("USBTokenPacket", kw, id)
new_USBDataPacket(kw, id)  == init_fields("USBDataPacket", kw, id)

\* MalformedPacket.validate
MalformedPacket_validate(p) ==
    [p EXCEPT !.status = IF @ = IntNone THEN 0 ELSE @,
              !.style  = "error exceptional"]

new_MalformedPacket(kw, id) ==
    MalformedPacket_validate(init_fields("MalformedPacket", kw, id))

\* USBTransaction.validate parses token, data_pid and handshake as PIDs
new_USBTransaction(kw, id) == init_fields("USBTransaction", kw, id)

\* USBDataTransaction.validate
USBDataTransaction_validate(p) ==
    LET subs == p.subordinate_packets
        p1   == [p EXCEPT
                   !.handshake = IF @ = IntNone /\ subs # <<>>
                                 THEN subs[Len(subs)].handshake ELSE @,
                   !.direction = IF @ = IntNone /\ subs # <<>>
                                 THEN subs[1].direction ELSE @]
    IN  IF Len(subs) = 3
        THEN [p1 EXCEPT
                !.data     = IF Truthy(@) THEN @ ELSE subs[2].data,
                !.data_pid = IF @ # IntNone /\ @ # 0 THEN @
                             ELSE subs[2].data_pid]
        ELSE p1

new_USBDataTransaction(kw, id) ==
    USBDataTransaction_validate(init_fields("USBDataTransaction", kw, id))

\* the length of the layout USBSetupTransaction.DATA_FORMAT
SETUP_DATA_LENGTH == 8

\* DATA_FORMAT.parse raises StreamError when the stream is too short
StreamError(data) == data = NoData \/ Len(data) < SETUP_DATA_LENGTH

\* USBSetupTransaction.validate (also USBSetupTransfer, which inherits it):
\* parse_data fills the fields that are still None, then request_direction
\* becomes a USBDirection and the `stalled` setter rewrites handshake
USBSetupTransaction_validate(p) ==
    LET d == p.data
        fill(cur, parsed) == IF cur = IntNone THEN parsed ELSE cur
        p1 == [p EXCEPT
                 !.request_direction = fill(@, d[1] \div 128),
                 !.request_type      = fill(@, (d[1] \div 32) % 4),
                 !.recipient         = fill(@, d[1] % 32),
                 !.request_number    = fill(@, d[2]),
                 !.value             = fill(@, d[3] + 256 * d[4]),
                 !.index             = fill(@, d[5] + 256 * d[6]),
                 !.request_length    = fill(@, d[7] + 256 * d[8])]
        is_stalled == p.data_pid = PID_STALL \/ p.handshake = PID_STALL
    IN  [p1 EXCEPT !.handshake = IF is_stalled THEN PID_STALL ELSE PID_ACK]

new_USBSetupTransaction(cls, kw, id) ==
    USBSetupTransaction_validate(init_fields(cls, kw, id))

\* USBDataTransfer.validate
USBDataTransfer_validate(p) ==
    LET subs == p.subordinate_packets
    IN  [p EXCEPT
           !.handshake = IF @ = IntNone /\ subs # <<>>
                         THEN subs[Len(subs)].handshake ELSE @,
           !.direction = IF @ = IntNone /\ subs # <<>>
                         THEN subs[1].direction ELSE @,
           !.data      = IF @ = NoData THEN ConcatAcked(subs) ELSE @]

new_USBDataTransfer(kw, id) ==
    USBDataTransfer_validate(init_fields("USBDataTransfer", kw, id))

\* USBControlTransfer.validate raises ValueError when parse_field_as_type
\* cannot convert the recipient: USBRequestRecipient(value) of a value that
\* is no member of the enumeration
USBControlTransfer_raises(kw) == ~USBRequestRecipient_valid(kw.recipient)

\* USBControlTransfer.validate, when it does not raise
USBControlTransfer_validate(p) ==
    [p EXCEPT !.style = IF p.stalled = "True" THEN "exceptional" ELSE "None"]

new_USBControlTransfer(kw, id) ==
    USBControlTransfer_validate(init_fields("USBControlTransfer", kw, id))

\* ViewSBPacket.get_raw_data
get_raw_data(p) == IF Truthy(p.data) THEN p.data ELSE <<>>

\* the keyword arguments USBControlTransfer.from_subordinates builds; a stage
\* that is None is passed as the empty sequence, a present one as <<packet>>
from_subordinates_fields(setup_transfer, data_transfer, status_transfer) ==
    LET blank == init_fields("USBControlTransfer",
                             [f \in ModelFields |-> NoneOf(f)], IntNone)
        stalled ==
            IF /\ status_transfer # <<>>
               /\ status_transfer[1].handshake = PID_STALL THEN "True"
            ELSE IF data_transfer = <<>> THEN "None"
            ELSE IF data_transfer[1].handshake = PID_STALL THEN "True"
            ELSE "False"
    IN  [blank EXCEPT
           !.style           = "None",
           !.timestamp       = setup_transfer.timestamp,
           !.endpoint_number = setup_transfer.endpoint_number,
           !.device_address  = setup_transfer.device_address,
           !.recipient       = setup_transfer.recipient,
           !.request_type    = setup_transfer.request_type,
           !.request_number  = setup_transfer.request_number,
           !.value           = setup_transfer.value,
           !.index           = setup_transfer.index,
           !.request_length  = setup_transfer.request_length,
           !.direction       = setup_transfer.request_direction,
           !.data            = IF data_transfer # <<>>
                               THEN get_raw_data(data_transfer[1])
                               ELSE NoData,
           !.stalled         = stalled,
           !.subordinate_packets =
               <<setup_transfer>> \o data_transfer \o status_transfer]

\* the validate methods of the standard requests (standard_requests.py)
StandardRequest_validate(cls, p) ==
    CASE cls = "SetAddressRequest" -> [p EXCEPT !.new_address = p.value]
      [] cls = "SetConfigurationRequest" ->
            [p EXCEPT !.configuration_number = p.value]
      [] cls \in {"GetDescriptorRequest"} \cup DescriptorRequestTypes ->
            [p EXCEPT !.descriptor_number = p.value \div 256,
                      !.descriptor_index  = p.value % 256]
      [] OTHER -> p

new_StandardRequest(cls, kw, id) ==
    StandardRequest_validate(cls, init_fields(cls, kw, id))

----------------------------------------------------------------------------
(* decoder.py and decoders/grouping.py.  A decoder's consume_packet is an  *)
(* operator from the decoders' buffers `d`, the packet and the next free   *)
(* identity `nid` to a record: `d` the buffers afterwards, `emitted` the   *)
(* packets handed to emit_packet in order, `unhandled` whether it raised   *)
(* UnhandledPacket and `error` whether any other exception escaped.        *)

Outcome(d, emitted, unhandled, error) ==
    [d |-> d, emitted |-> emitted, unhandled |-> unhandled, error |-> error]

TOKEN_PAYLOAD_LENGTH   == 2
CRC16_LENGTH           == 2
MAXIMUM_PACKET_PAYLOAD == 1026

\* can_handle_packet written with isinstance: every subclass of USBPacket
\* passes, the specializer's own products among them
isinstance_USBPacket(packet) ==
    packet.type \in {"USBPacket", "USBStartOfFrame",
                     "USBStartOfFrameCollection", "USBTokenPacket",
                     "USBDataPacket", "USBHandshakePacket", "MalformedPacket"}

\* USBPacketSpecializer.can_handle_packet
USBPacketSpecializer_can_handle_packet(packet) == packet.type = "USBPacket"

\* USBPacketSpecializer._consume_sof_packet
consume_sof_packet(packet, nid) ==
    <<new_USBPacket("USBStartOfFrame", packet, nid)>>

\* _consume_token_packet with a length test that only rejects a payload
\* too short to hold the token's fields
consume_token_packet_unless_short(packet, nid) ==
    IF Len(packet.data) < TOKEN_PAYLOAD_LENGTH
    THEN <<new_MalformedPacket(packet, nid)>>
    ELSE <<new_USBTokenPacket(
             [packet EXCEPT
                 !.device_address  = packet.data[1] % 128,
                 !.endpoint_number = (packet.data[2] % 8) * 2
                                     + (packet.data[1] \div 128),
                 !.crc5            = packet.data[2] \div 8,
                 !.direction       = direction(packet.pid)], nid)>>

\* _consume_token_packet taking the endpoint number from the second byte
\* alone, without the high bit of the first
consume_token_packet_second_byte_alone(packet, nid) ==
    IF Len(packet.data) # TOKEN_PAYLOAD_LENGTH
    THEN <<new_MalformedPacket(packet, nid)>>
    ELSE LET fields == [packet EXCEPT
                 !.device_address  = packet.data[1] % 128,
                 !.endpoint_number = (packet.data[2] % 8) * 2,
                 !.crc5            = packet.data[2] \div 8,
                 !.direction       = direction(packet.pid)]
         IN  <<new_USBTokenPacket(fields, nid)>>

\* USBPacketSpecializer._consume_token_packet
consume_token_packet(packet, nid) ==
    IF Len(packet.data) # TOKEN_PAYLOAD_LENGTH
    THEN <<new_MalformedPacket(packet, nid)>>
    ELSE LET fields == [packet EXCEPT
                 !.device_address  = packet.data[1] % 128,
                 !.endpoint_number = (packet.data[2] % 8) * 2
                                     + (packet.data[1] \div 128),
                 !.crc5            = packet.data[2] \div 8,
                 !.direction       = direction(packet.pid)]
         IN  <<new_USBTokenPacket(fields, nid)>>

\* USBPacketSpecializer._consume_handshake_packet
consume_handshake_packet(packet, nid) ==
    <<new_USBPacket("USBHandshakePacket", packet, nid)>>

\* the length test of USBPacketSpecializer._consume_data_packet
data_length_ok(length) ==
    CRC16_LENGTH <= length /\ length < MAXIMUM_PACKET_PAYLOAD

\* USBPacketSpecializer._consume_data_packet
consume_data_packet(packet, nid) ==
    IF ~data_length_ok(Len(packet.data))
    THEN <<new_MalformedPacket(packet, nid)>>
    ELSE LET fields == [packet EXCEPT !.crc16 = Last2(packet.data),
                                      !.data  = StripLast2(packet.data)]
         IN  <<new_USBDataPacket(fields, nid)>>

\* USBPacketSpecializer.consume_packet
USBPacketSpecializer_consume_packet(d, packet, nid) ==
    IF packet.pid = PID_SOF
    THEN Outcome(d, consume_sof_packet(packet, nid), FALSE, FALSE)
    ELSE IF is_token(packet.pid)
    THEN Outcome(d, consume_token_packet(packet, nid), FALSE, FALSE)
    ELSE IF is_handshake(packet.pid)
    THEN Outcome(d, consume_handshake_packet(packet, nid), FALSE, FALSE)
    ELSE IF is_data(packet.pid)
    THEN Outcome(d, consume_data_packet(packet, nid), FALSE, FALSE)
    ELSE Outcome(d, <<>>, TRUE, FALSE)

\* USBStartOfFrameConglomerator._emit_queued_packets: the collection copies
\* the first SOF's fields and does not take the SOFs as subordinates
emit_queued_packets(packets, nid) ==
    IF packets = <<>> THEN <<>>
    ELSE <<new_USBPacket("USBStartOfFrameCollection", packets[1], nid)>>

\* USBStartOfFrameConglomerator.consume_packet
USBStartOfFrameConglomerator_consume_packet(d, packet, nid) ==
    IF packet.type = "USBStartOfFrame"
    THEN Outcome([d EXCEPT !.sof = Append(@, packet)], <<>>, FALSE, FALSE)
    ELSE Outcome([d EXCEPT !.sof = <<>>],
                 emit_queued_packets(d.sof, nid), TRUE, FALSE)

\* USBTransactionDecoder.can_handle_packet
USBTransactionDecoder_can_handle_packet(packet) ==
    packet.type \in {"USBTokenPacket", "USBDataPacket", "USBHandshakePacket"}

\* emit_transaction taking the data of the last packet captured instead of
\* the second
emit_transaction_data_of_last(packets_captured, sequence_error, nid) ==
    IF packets_captured = <<>> THEN <<>>
    ELSE <<new_USBTransaction(
             [packets_captured[1] EXCEPT
                 !.token     = packets_captured[1].pid,
                 !.handshake = packets_captured[Len(packets_captured)].pid,
                 !.data_pid  = IF Len(packets_captured) = 3
                               THEN packets_captured[2].pid ELSE IntNone,
                 !.data      = IF Len(packets_captured) = 3
                               THEN packets_captured[Len(packets_captured)].data
                               ELSE NoData,
                 !.subordinate_packets = packets_captured], nid)>>

\* emit_transaction taking the handshake from the first packet captured
emit_transaction_handshake_of_first(packets_captured, sequence_error, nid) ==
    IF packets_captured = <<>> THEN <<>>
    ELSE LET first  == packets_captured[1]
             three  == Len(packets_captured) = 3
             fields == [first EXCEPT
                 !.token     = first.pid,
                 !.handshake = first.pid,
                 !.data_pid  = IF three THEN packets_captured[2].pid
                               ELSE IntNone,
                 !.data      = IF three THEN packets_captured[2].data
                               ELSE NoData,
                 !.subordinate_packets = packets_captured]
         IN  <<new_USBTransaction(fields, nid)>>

\* emit_transaction filling data and data_pid from the second packet
\* whenever there is one
emit_transaction_data_of_second(packets_captured, sequence_error, nid) ==
    IF packets_captured = <<>> THEN <<>>
    ELSE LET first  == packets_captured[1]
             last_  == packets_captured[Len(packets_captured)]
             some   == Len(packets_captured) >= 2
             fields == [first EXCEPT
                 !.token     = first.pid,
                 !.handshake = last_.pid,
                 !.data_pid  = IF some THEN packets_captured[2].pid
                               ELSE IntNone,
                 !.data      = IF some THEN packets_captured[2].data
                               ELSE NoData,
                 !.subordinate_packets = packets_captured]
         IN  <<new_USBTransaction(fields, nid)>>

\* USBTransactionDecoder.emit_transaction: the packets emitted for the buffer
\* `packets_captured` (the buffer is empty afterwards); sequence_error is
\* accepted by the method and never used
emit_transaction(packets_captured, sequence_error, nid) ==
    IF packets_captured = <<>> THEN <<>>
    ELSE LET first  == packets_captured[1]
             last_  == packets_captured[Len(packets_captured)]
             three  == Len(packets_captured) = 3
             fields == [first EXCEPT
                 !.token     = first.pid,
                 !.handshake = last_.pid,
                 !.data_pid  = IF three THEN packets_captured[2].pid
                               ELSE IntNone,
                 !.data      = IF three THEN packets_captured[2].data
                               ELSE NoData,
                 !.subordinate_packets = packets_captured]
         IN  <<new_USBTransaction(fields, nid)>>

\* consume_packet without the second emit_transaction of its case 2: a data
\* packet out of sequence stays in the fresh buffer
USBTransactionDecoder_consume_packet_keeping_data(d, packet, nid) ==
    LET buf == d.transaction
        first_is_token == buf # <<>> /\ buf[1].type = "USBTokenPacket"
        last_is_token  == buf # <<>> /\ buf[Len(buf)].type = "USBTokenPacket"
    IN  CASE packet.type = "USBTokenPacket" ->
               LET was_control_request ==
                       buf # <<>> /\ buf[1].endpoint_number = 0
               IN  Outcome([d EXCEPT !.transaction = <<packet>>],
                           emit_transaction(buf, was_control_request, nid),
                           FALSE, FALSE)
          [] packet.type = "USBDataPacket" ->
               IF ~last_is_token
               THEN Outcome([d EXCEPT !.transaction = <<packet>>],
                            emit_transaction(buf, TRUE, nid), FALSE, FALSE)
               ELSE Outcome([d EXCEPT !.transaction = Append(buf, packet)],
                            <<>>, FALSE, FALSE)
          [] packet.type = "USBHandshakePacket" ->
               IF ~first_is_token
               THEN LET e1 == emit_transaction(buf, TRUE, nid)
                        e2 == emit_transaction(<<packet>>, TRUE,
                                               nid + Len(e1))
                    IN  Outcome([d EXCEPT !.transaction = <<>>],
                                e1 \o e2, FALSE, FALSE)
               ELSE Outcome([d EXCEPT !.transaction = <<>>],
                            emit_transaction(Append(buf, packet), FALSE, nid),
                            FALSE, FALSE)

\* USBTransactionDecoder.consume_packet
USBTransactionDecoder_consume_packet(d, packet, nid) ==
    LET buf == d.transaction
        first_is_token == buf # <<>> /\ buf[1].type = "USBTokenPacket"
        last_is_token  == buf # <<>> /\ buf[Len(buf)].type = "USBTokenPacket"
    IN  CASE packet.type = "USBTokenPacket" ->
               LET was_control_request ==
                       buf # <<>> /\ buf[1].endpoint_number = 0
               IN  Outcome([d EXCEPT !.transaction = <<packet>>],
                           emit_transaction(buf, was_control_request, nid),
                           FALSE, FALSE)
          [] packet.type = "USBDataPacket" ->
               IF ~last_is_token
               THEN LET e1 == emit_transaction(buf, TRUE, nid)
                        e2 == emit_transaction(<<packet>>, TRUE,
                                               nid + Len(e1))
                    IN  Outcome([d EXCEPT !.transaction = <<>>],
                                e1 \o e2, FALSE, FALSE)
               ELSE Outcome([d EXCEPT !.transaction = Append(buf, packet)],
                            <<>>, FALSE, FALSE)
          [] packet.type = "USBHandshakePacket" ->
               IF ~first_is_token
               THEN LET e1 == emit_transaction(buf, TRUE, nid)
                        e2 == emit_transaction(<<packet>>, TRUE,
                                               nid + Len(e1))
                    IN  Outcome([d EXCEPT !.transaction = <<>>],
                                e1 \o e2, FALSE, FALSE)
               ELSE Outcome([d EXCEPT !.transaction = <<>>],
                            emit_transaction(Append(buf, packet), FALSE, nid),
                            FALSE, FALSE)

\* USBTransactionSpecializer.can_handle_packet
USBTransactionSpecializer_can_handle_packet(packet) ==
    packet.type = "USBTransaction"

\* consume_packet with a MalformedPacket that does not take over the
\* transaction's subordinate packets
USBTransactionSpecializer_consume_packet_dropping_subordinates(d, packet, nid) ==
    IF packet.token = PID_SETUP
    THEN IF StreamError(packet.data)
         THEN Outcome(d, <<new_MalformedPacket(
                               [packet EXCEPT !.subordinate_packets = <<>>],
                               nid)>>, FALSE, FALSE)
         ELSE Outcome(d, <<new_USBSetupTransaction("USBSetupTransaction",
                                                   packet, nid)>>,
                      FALSE, FALSE)
    ELSE IF packet.token \in {PID_IN, PID_OUT}
    THEN Outcome(d, <<new_USBDataTransaction(packet, nid)>>, FALSE, FALSE)
    ELSE Outcome(d, <<>>, TRUE, FALSE)

\* consume_packet without its last branch: a transaction that is no SETUP is
\* taken as a data transaction whatever its token
USBTransactionSpecializer_consume_packet_any_token(d, packet, nid) ==
    IF packet.token = PID_SETUP
    THEN IF StreamError(packet.data)
         THEN Outcome(d, <<new_MalformedPacket(packet, nid)>>, FALSE, FALSE)
         ELSE Outcome(d, <<new_USBSetupTransaction("USBSetupTransaction",
                                                   packet, nid)>>,
                      FALSE, FALSE)
    ELSE Outcome(d, <<new_USBDataTransaction(packet, nid)>>, FALSE, FALSE)

\* USBTransactionSpecializer.consume_packet: the specialized class is built
\* from the transaction's own fields; a StreamError of the setup parse gives
\* a MalformedPacket
USBTransactionSpecializer_consume_packet(d, packet, nid) ==
    IF packet.token = PID_SETUP
    THEN IF StreamError(packet.data)
         THEN Outcome(d, <<new_MalformedPacket(packet, nid)>>, FALSE, FALSE)
         ELSE Outcome(d, <<new_USBSetupTransaction("USBSetupTransaction",
                                                   packet, nid)>>,
                      FALSE, FALSE)
    ELSE IF packet.token \in {PID_IN, PID_OUT}
    THEN Outcome(d, <<new_USBDataTransaction(packet, nid)>>, FALSE, FALSE)
    ELSE Outcome(d, <<>>, TRUE, FALSE)

\* a defaultdict(lambda: []) read: a missing key is an empty list
Get(m, k) == IF k \in DOMAIN m THEN m[k] ELSE <<>>
Put(m, k, v) == [x \in DOMAIN m \cup {k} |-> IF x = k THEN v ELSE m[x]]

\* USBTransferGrouper.can_handle_packet
USBTransferGrouper_can_handle_packet(packet) ==
    packet.type \in {"USBSetupTransaction", "USBDataTransaction"}

\* _pipe_identifier_for_packet without the special case of endpoint 0
transfer_pipe_identifier_by_direction(packet) ==
    <<packet.device_address,
      to_endpoint_address(packet.direction, packet.endpoint_number)>>

\* USBTransferGrouper._pipe_identifier_for_packet
transfer_pipe_identifier_for_packet(packet) ==
    <<packet.device_address,
      IF packet.endpoint_number = 0 THEN 0
      ELSE to_endpoint_address(packet.direction, packet.endpoint_number)>>

\* USBTransferGrouper._emit_data_transfer_from_packets
emit_data_transfer_from_packets(packets, nid) ==
    new_USBDataTransfer([packets[1] EXCEPT !.data = NoData,
                                           !.handshake = IntNone,
                                           !.subordinate_packets = packets],
                        nid)

\* USBTransferGrouper.flush_queued_packets on the pipe's buffer `packets`
\* (the buffer is empty afterwards): what it emits, and whether its assert
\* fails
flush_queued_packets(packets, nid) ==
    IF packets = <<>> THEN [emitted |-> <<>>, error |-> FALSE]
    ELSE IF packets[1].token = PID_SETUP
    THEN IF Len(packets) # 1 THEN [emitted |-> <<>>, error |-> TRUE]
         ELSE [emitted |-> <<new_USBSetupTransaction("USBSetupTransfer",
                                                     packets[1], nid)>>,
               error |-> FALSE]
    ELSE IF /\ packets[1].endpoint_number = 0
            /\ packets[Len(packets)].direction # packets[1].direction
    THEN [emitted |->
            <<emit_data_transfer_from_packets(
                  SubSeq(packets, 1, Len(packets) - 1), nid),
              emit_data_transfer_from_packets(
                  <<packets[Len(packets)]>>, nid + 1)>>,
          error |-> FALSE]
    ELSE [emitted |-> <<emit_data_transfer_from_packets(packets, nid)>>,
          error |-> FALSE]

\* packet_starts_new_transfer without the rule for the control endpoint
packet_starts_new_transfer_on_setup(buf, packet) ==
    packet.token = PID_SETUP

\* packet_starts_new_transfer without the rule for the setup token
packet_starts_new_transfer_on_direction_switch(buf, packet) ==
    /\ buf # <<>>
    /\ packet.endpoint_number = 0
    /\ packet.direction # buf[1].direction

\* USBTransferGrouper.packet_starts_new_transfer
packet_starts_new_transfer(buf, packet) ==
    \/ packet.token = PID_SETUP
    \/ /\ buf # <<>>
       /\ packet.endpoint_number = 0
       /\ packet.direction # buf[1].direction

\* timedelta(microseconds=10e3); timestamps are in microseconds
DISCONTINUITY_MICROSECONDS == 10000

\* packet_seems_discontinuous without the test of the endpoint
packet_seems_discontinuous_on_any_endpoint(buf, packet) ==
    /\ buf # <<>>
    /\ packet.timestamp - buf[Len(buf)].timestamp > DISCONTINUITY_MICROSECONDS

\* USBTransferGrouper.packet_seems_discontinuous
packet_seems_discontinuous(buf, packet) ==
    /\ buf # <<>>
    /\ packet.endpoint_number # 0
    /\ packet.timestamp - buf[Len(buf)].timestamp > DISCONTINUITY_MICROSECONDS

\* packet_concludes_transfer without the short-packet test: every ACKed
\* transaction with data ends the transfer
packet_concludes_transfer_on_ack(packet) ==
    \/ packet.data # NoData /\ packet.handshake = PID_ACK
    \/ packet.token = PID_SETUP

\* packet_concludes_transfer without the test for a zero-length packet
packet_concludes_transfer_on_odd_length(packet) ==
    \/ /\ packet.data # NoData
       /\ packet.handshake = PID_ACK
       /\ Len(packet.data) % 8 # 0
    \/ packet.token = PID_SETUP

\* USBTransferGrouper.packet_concludes_transfer
packet_concludes_transfer(packet) ==
    \/ /\ packet.data # NoData
       /\ packet.handshake = PID_ACK
       /\ (Len(packet.data) = 0 \/ Len(packet.data) % 8 # 0)
    \/ packet.token = PID_SETUP

NoEmit == [emitted |-> <<>>, error |-> FALSE]

\* USBTransferGrouper.consume_packet, its end: `pre` and `post` are what the
\* two calls of flush_queued_packets did, `buf` is the pipe's buffer at
\* the return
transfer_grouper_flushed(d, pipe, pre, post, buf) ==
    IF post.error
    THEN Outcome([d EXCEPT !.transfer = Put(@, pipe, <<>>)],
                 pre.emitted, FALSE, TRUE)
    ELSE Outcome([d EXCEPT !.transfer = Put(@, pipe, buf)],
                 pre.emitted \o post.emitted, FALSE, FALSE)

\* USBTransferGrouper.consume_packet from the append on: `pre` is what the
\* flush before it did, `buf` the pipe's buffer with the packet appended
transfer_grouper_append(d, pipe, packet, nid, pre, buf) ==
    IF pre.error
    THEN Outcome([d EXCEPT !.transfer = Put(@, pipe, <<>>)],
                 <<>>, FALSE, TRUE)
    ELSE IF packet_concludes_transfer(packet)
    THEN transfer_grouper_flushed(d, pipe, pre,
             flush_queued_packets(buf, nid + Len(pre.emitted)), <<>>)
    ELSE transfer_grouper_flushed(d, pipe, pre, NoEmit, buf)

\* USBTransferGrouper.consume_packet
USBTransferGrouper_consume_packet(d, packet, nid) ==
    LET pipe == transfer_pipe_identifier_for_packet(packet)
        buf  == Get(d.transfer, pipe)
    IN  IF \/ packet_starts_new_transfer(buf, packet)
           \/ packet_seems_discontinuous(buf, packet)
        THEN transfer_grouper_append(d, pipe, packet, nid,
                 flush_queued_packets(buf, nid), <<packet>>)
        ELSE transfer_grouper_append(d, pipe, packet, nid, NoEmit,
                 Append(buf, packet))

\* _pipe_identifier_for_packet keyed by the endpoint instead of the device
control_pipe_identifier_by_endpoint(packet) == <<packet.endpoint_number>>

\* USBControlRequestGrouper._pipe_identifier_for_packet
control_pipe_identifier_for_packet(packet) == <<packet.device_address>>

\* USBControlRequestGrouper.can_handle_packet
USBControlRequestGrouper_can_handle_packet(packet) ==
    /\ packet.type \in {"USBSetupTransfer", "USBDataTransfer"}
    /\ packet.endpoint_number = 0

\* request_length as a condition: None and 0 are false
HasLength(setup) == setup.request_length # IntNone /\ setup.request_length # 0

\* USBControlTransfer(**fields) at the end of from_subordinates
from_subordinates(fields, nid) ==
    IF USBControlTransfer_raises(fields)
    THEN [emitted |-> <<>>, error |-> TRUE]
    ELSE [emitted |-> <<new_USBControlTransfer(fields, nid)>>,
          error |-> FALSE]

\* USBControlRequestGrouper.emit_control_request on the pipe's buffer
\* `packets` (the buffer has been reset when it is not empty): what it emits
\* and whether an exception escapes
emit_control_request(packets, nid) ==
    IF packets = <<>> THEN NoEmit
    ELSE IF Len(packets) = 1 \/ packets[1].type # "USBSetupTransfer"
    THEN [emitted |-> <<new_MalformedPacket(packets[1], nid)>>,
          error |-> FALSE]
    ELSE IF Len(packets) > 3 THEN [emitted |-> <<>>, error |-> TRUE]
    ELSE IF Len(packets) = 3
    THEN from_subordinates(
             from_subordinates_fields(packets[1], <<packets[2]>>,
                                      <<packets[3]>>), nid)
    ELSE IF HasLength(packets[1])
    THEN from_subordinates(
             from_subordinates_fields(packets[1], <<packets[2]>>, <<>>), nid)
    ELSE from_subordinates(
             from_subordinates_fields(packets[1], <<>>, <<packets[2]>>), nid)

\* USBControlRequestGrouper.consume_packet, its end: `before` is what the
\* earlier calls of emit_control_request emitted, `e3` what the last one did
\* and `cur` the pipe's buffer at the return
control_grouper_emitted(d, pipe, before, e3, cur) ==
    IF e3.error
    THEN Outcome([d EXCEPT !.control = Put(@, pipe, cur)],
                 before, FALSE, TRUE)
    ELSE Outcome([d EXCEPT !.control = Put(@, pipe, cur)],
                 before \o e3.emitted, FALSE, FALSE)

\* the end of consume_packet without its case 3: three packets are kept
control_grouper_append_without_case_3(d, pipe, packet, nid, before, cur, packets_on_pipe) ==
    IF /\ Len(packets_on_pipe) = 2
       /\ \/ packet.handshake = PID_STALL
          \/ ~HasLength(packets_on_pipe[1])
    THEN control_grouper_emitted(d, pipe, before,
             emit_control_request(cur, nid), <<>>)
    ELSE control_grouper_emitted(d, pipe, before, NoEmit, cur)

\* USBControlRequestGrouper.consume_packet from the append on: `cur` is the
\* pipe's buffer and `packets_on_pipe` the list read at entry, which is no
\* longer the pipe's buffer once emit_control_request has replaced it
control_grouper_append(d, pipe, packet, nid, before, cur, packets_on_pipe) ==
    IF \/ /\ Len(packets_on_pipe) = 2
          /\ \/ packet.handshake = PID_STALL
             \/ ~HasLength(packets_on_pipe[1])
       \/ Len(packets_on_pipe) = 3
    THEN control_grouper_emitted(d, pipe, before,
             emit_control_request(cur, nid), <<>>)
    ELSE control_grouper_emitted(d, pipe, before, NoEmit, cur)

\* USBControlRequestGrouper.consume_packet from its second test on: `e1` is
\* what the flush for a setup packet did, `e2` what the flush for a buffer
\* that does not start with a setup did, `old` the list read at entry
control_grouper_second(d, pipe, packet, nid, old, replaced, e1, e2, cur) ==
    IF e2.error
    THEN Outcome([d EXCEPT !.control = Put(@, pipe, <<>>)],
                 e1.emitted, FALSE, TRUE)
    ELSE control_grouper_append(d, pipe, packet,
             nid + Len(e1.emitted) + Len(e2.emitted),
             e1.emitted \o e2.emitted,
             Append(cur, packet),
             IF replaced THEN old ELSE Append(cur, packet))

\* USBControlRequestGrouper.consume_packet after its first test
control_grouper_first(d, pipe, packet, nid, old, is_setup, e1) ==
    LET cur1 == IF is_setup THEN <<>> ELSE old
        head_not_setup ==
            /\ old # <<>>
            /\ old[1].type \notin {"USBSetupTransaction", "USBSetupTransfer"}
        replaced == old # <<>> /\ (is_setup \/ head_not_setup)
    IN  IF e1.error
        THEN Outcome([d EXCEPT !.control = Put(@, pipe, cur1)],
                     <<>>, FALSE, TRUE)
        ELSE IF head_not_setup
        THEN control_grouper_second(d, pipe, packet, nid, old, replaced, e1,
                 emit_control_request(cur1, nid + Len(e1.emitted)), <<>>)
        ELSE control_grouper_second(d, pipe, packet, nid, old, replaced, e1,
                 NoEmit, cur1)

\* USBControlRequestGrouper.consume_packet.  packets_on_pipe is the list
\* object read at entry: once emit_control_request has replaced the pipe's
\* list, packets_on_pipe still names the old one
USBControlRequestGrouper_consume_packet(d, packet, nid) ==
    LET pipe == control_pipe_identifier_for_packet(packet)
        old  == Get(d.control, pipe)
    IN  IF packet.type \in {"USBSetupTransaction", "USBSetupTransfer"}
        THEN control_grouper_first(d, pipe, packet, nid, old, TRUE,
                 emit_control_request(old, nid))
        ELSE control_grouper_first(d, pipe, packet, nid, old, FALSE, NoEmit)

\* StandardRequestDecoder.can_handle_packet
StandardRequestDecoder_can_handle_packet(packet) ==
    /\ packet.type = "USBControlTransfer"
    /\ packet.request_type = REQUEST_TYPE_STANDARD

\* REQUEST_NUMBER of the subclasses of StandardControlRequest, in the order
\* of their definition
StandardRequests ==
    <<[cls |-> "GetStatus", number |-> 0],
      [cls |-> "SetAddressRequest", number |-> 5],
      [cls |-> "SetConfigurationRequest", number |-> 9],
      [cls |-> "GetDescriptorRequest", number |-> 6]>>

\* handles_request without RECIPIENTS_HANDLED
handles_request_by_number_alone(entry, request) ==
    request.request_number = entry.number

\* StandardControlRequest.handles_request
handles_request(entry, request) ==
    /\ request.request_number = entry.number
    /\ request.recipient \in {RECIPIENT_DEVICE}

\* StandardControlRequest.get_specialized_request: the classes that handle
\* the transfer; the first one is used
get_specialized_request(transfer) ==
    SelectSeq(StandardRequests, LAMBDA e : handles_request(e, transfer))

\* StandardRequestDecoder.consume_packet
StandardRequestDecoder_consume_packet(d, packet, nid) ==
    LET found == get_specialized_request(packet)
    IN  IF found # <<>>
        THEN Outcome(d, <<new_StandardRequest(found[1].cls, packet, nid)>>,
                     FALSE, FALSE)
        ELSE Outcome(d, <<>>, TRUE, FALSE)

\* DescriptorRequestDecoder.can_handle_packet
DescriptorRequestDecoder_can_handle_packet(packet) ==
    packet.type = "GetDescriptorRequest"

\* the descriptor numbers of the subclasses of GetDescriptorRequest
DescriptorRequests ==
    <<[cls |-> "GetDeviceDescriptorRequest", number |-> 1],
      [cls |-> "GetConfigurationDescriptorRequest", number |-> 2],
      [cls |-> "GetStringDescriptorRequest", number |-> 3],
      [cls |-> "GetInterfaceDescriptorRequest", number |-> 4],
      [cls |-> "GetEndpointDescriptorRequest", number |-> 5],
      [cls |-> "GetDeviceQualifierDescriptorRequest", number |-> 6],
      [cls |-> "GetClassSpecificDescriptorRequest", number |-> 36]>>

\* DescriptorRequestDecoder.consume_packet with
\* DescriptorTransfer.get_specialized_transfer
DescriptorRequestDecoder_consume_packet(d, packet, nid) ==
    LET found == SelectSeq(DescriptorRequests,
                     LAMBDA e : e.number = packet.descriptor_number)
    IN  IF found # <<>>
        THEN Outcome(d, <<new_StandardRequest(found[1].cls, packet, nid)>>,
                     FALSE, FALSE)
        ELSE Outcome(d, <<>>, TRUE, FALSE)

----------------------------------------------------------------------------
(* The decoder chain of the analyzer, in the order of grouping.py followed *)
(* by the request decoders.                                                *)

STAGE_SPECIALIZER    == 1
STAGE_CONGLOMERATOR  == 2
STAGE_TRANSACTION    == 3
STAGE_TRANSACTION_SPECIALIZER == 4
STAGE_TRANSFER       == 5
STAGE_CONTROL        == 6
STAGE_STANDARD       == 7
STAGE_DESCRIPTOR     == 8
NumStages            == 8

\* can_handle_packet of stage i (ViewSBDecoder's default accepts everything)
can_handle_packet(i, packet) ==
    CASE i = STAGE_SPECIALIZER   -> USBPacketSpecializer_can_handle_packet(packet)
      [] i = STAGE_CONGLOMERATOR -> TRUE
      [] i = STAGE_TRANSACTION   -> USBTransactionDecoder_can_handle_packet(packet)
      [] i = STAGE_TRANSACTION_SPECIALIZER ->
            USBTransactionSpecializer_can_handle_packet(packet)
      [] i = STAGE_TRANSFER      -> USBTransferGrouper_can_handle_packet(packet)
      [] i = STAGE_CONTROL       -> USBControlRequestGrouper_can_handle_packet(packet)
      [] i = STAGE_STANDARD      -> StandardRequestDecoder_can_handle_packet(packet)
      [] i = STAGE_DESCRIPTOR    -> DescriptorRequestDecoder_can_handle_packet(packet)

\* consume_packet of stage i
consume_packet(i, d, packet, nid) ==
    CASE i = STAGE_SPECIALIZER   -> USBPacketSpecializer_consume_packet(d, packet, nid)
      [] i = STAGE_CONGLOMERATOR ->
            USBStartOfFrameConglomerator_consume_packet(d, packet, nid)
      [] i = STAGE_TRANSACTION   -> USBTransactionDecoder_consume_packet(d, packet, nid)
      [] i = STAGE_TRANSACTION_SPECIALIZER ->
            USBTransactionSpecializer_consume_packet(d, packet, nid)
      [] i = STAGE_TRANSFER      -> USBTransferGrouper_consume_packet(d, packet, nid)
      [] i = STAGE_CONTROL       -> USBControlRequestGrouper_consume_packet(d, packet, nid)
      [] i = STAGE_STANDARD      -> StandardRequestDecoder_consume_packet(d, packet, nid)
      [] i = STAGE_DESCRIPTOR    -> DescriptorRequestDecoder_consume_packet(d, packet, nid)

\* ViewSBDecoder.handle_packet after consume_packet returned or raised:
\* UnhandledPacket turns into `not handled`, any other exception escapes
handled(r) ==
    [d |-> r.d, emitted |-> r.emitted,
     handled |-> ~r.unhandled /\ ~r.error, error |-> r.error]

\* ViewSBDecoder.handle_packet: consume when can_handle_packet accepts
handle_packet(i, d, packet, nid) ==
    IF can_handle_packet(i, packet)
    THEN handled(consume_packet(i, d, packet, nid))
    ELSE [d |-> d, emitted |-> <<>>, handled |-> FALSE, error |-> FALSE]

\* what stage i emitted goes before what the later stages emitted
passed_on(i, emitted, rest) ==
    [rest EXCEPT !.emitted = emitted \o @,
                 !.emitted_by = [k \in 1..Len(emitted) |-> i] \o @,
                 !.offered = <<i>> \o @]

RECURSIVE run_decoders(_, _, _, _)
RECURSIVE next_decoder(_, _, _, _)
\* the `for decoder in self.decoders` loop of process_analysis_queue, from
\* stage i on: the buffers afterwards, everything emitted, the stage that
\* handled the packet (0: none), the stages it was offered to, and whether
\* an exception escaped
run_decoders(i, d, packet, nid) ==
    IF i > NumStages
    THEN [d |-> d, emitted |-> <<>>, by |-> 0, offered |-> <<>>,
          error |-> FALSE, emitted_by |-> <<>>]
    ELSE next_decoder(i, packet, nid, handle_packet(i, d, packet, nid))

\* the loop after stage i's handle_packet gave `r`: `break` when it handled
\* the packet, the next decoder otherwise
next_decoder(i, packet, nid, r) ==
    IF r.error \/ r.handled
    THEN [d |-> r.d, emitted |-> r.emitted,
          by |-> IF r.error THEN 0 ELSE i,
          offered |-> <<i>>, error |-> r.error,
          emitted_by |-> [k \in 1..Len(r.emitted) |-> i]]
    ELSE passed_on(i, r.emitted,
             run_decoders(i + 1, r.d, packet, nid + Len(r.emitted)))

----------------------------------------------------------------------------
(* The captures the backend plays: every sequence of at most MaxChunks     *)
(* chunks, a chunk being a well-formed transaction or a lone packet, and   *)
(* the captures that hold one data packet of a length around               *)
(* MAXIMUM_PACKET_PAYLOAD.  USBPacket.from_raw_packet gives a raw packet   *)
(* its pid and its payload; identities and timestamps follow the position  *)
(* in the capture, a packet every millisecond.                             *)

Blank == [f \in ModelFields |-> NoneOf(f)]

\* USBPacket.from_raw_packet
from_raw_packet(pid, data) ==
    init_fields("USBPacket", [Blank EXCEPT !.pid = pid, !.data = data], 0)

CRC == <<201, 202>>

\* the two bytes of a token: 7 bits of address (the device captured has
\* address 5), 4 of endpoint, 5 of CRC5
TokenPayload(endpoint, crc5) ==
    <<5 + 128 * (endpoint % 2), (endpoint \div 2) + 8 * crc5>>

SetupPayload(request_type_byte, request_number, value, length) ==
    <<request_type_byte, request_number, value % 256, value \div 256, 0, 0,
      length % 256, length \div 256>> \o CRC

SetupChunk(request_type_byte, request_number, value, length) ==
    <<from_raw_packet(PID_SETUP, TokenPayload(0, 3)),
      from_raw_packet(PID_DATA0,
          SetupPayload(request_type_byte, request_number, value, length)),
      from_raw_packet(PID_ACK, <<>>)>>

\* a setup transaction that the device answers with STALL
StalledSetupChunk(request_type_byte, request_number, value, length) ==
    <<from_raw_packet(PID_SETUP, TokenPayload(0, 3)),
      from_raw_packet(PID_DATA0,
          SetupPayload(request_type_byte, request_number, value, length)),
      from_raw_packet(PID_STALL, <<>>)>>

DataChunk(token, endpoint, payload, handshake) ==
    <<from_raw_packet(token, TokenPayload(endpoint, 3)),
      from_raw_packet(PID_DATA1, payload \o CRC),
      from_raw_packet(handshake, <<>>)>>

Chunks ==
    {SetupChunk(0, 9, 1, 0),                 \* SET_CONFIGURATION, no data
     SetupChunk(5, 9, 1, 0),                 \* recipient 5 is not defined
     DataChunk(PID_IN, 0, <<>>, PID_ACK),    \* zero-length IN on endpoint 0
     DataChunk(PID_IN, 1, <<7>>, PID_ACK),   \* short IN on endpoint 1
     <<from_raw_packet(PID_ACK, <<>>)>>,
     <<from_raw_packet(PID_SOF, <<1, 2>>)>>,
     <<from_raw_packet(PID_SOF, <<1, 2, 3>>)>>,
     <<from_raw_packet(PID_OUT, TokenPayload(1, 3) \o <<0>>)>>,
     <<from_raw_packet(PID_DATA0, <<201>>)>>}

RECURSIVE Flatten(_)
Flatten(chunks) ==
    IF chunks = <<>> THEN <<>> ELSE Head(chunks) \o Flatten(Tail(chunks))

ChunkSequences(n) == [1..n -> Chunks]

\* a payload of the given length whose bytes differ from their neighbours
LongPayload(length) == [i \in 1..length |-> i % 251]

EdgeCaptures ==
    {<<from_raw_packet(PID_DATA1, LongPayload(n))>> :
        n \in (MAXIMUM_PACKET_PAYLOAD - 1)..(MAXIMUM_PACKET_PAYLOAD + 1)}

\* a whole control request with a data stage (GET_DESCRIPTOR, device), and
\* a transaction whose data packet comes twice
ScenarioCaptures ==
    {SetupChunk(128, 6, 256, 1) \o DataChunk(PID_IN, 0, <<18>>, PID_ACK)
        \o DataChunk(PID_OUT, 0, <<>>, PID_ACK),
     <<from_raw_packet(PID_IN, TokenPayload(1, 3)),
       from_raw_packet(PID_DATA1, <<7>> \o CRC),
       from_raw_packet(PID_DATA1, <<7>> \o CRC)>>}

\* a token and a handshake without a data packet between them
NoDataChunk(token, endpoint, handshake) ==
    <<from_raw_packet(token, TokenPayload(endpoint, 3)),
      from_raw_packet(handshake, <<>>)>>

\* a payload of the size the short-packet heuristic takes for a full packet
FullPayload == <<11, 12, 13, 14, 15, 16, 17, 18>>

\* control requests: with a data stage (OUT, an unregistered request number;
\* IN, a recipient that is not defined), with a data stage that stalls, to
\* an interface, and a setup that follows a buffered data transaction or
\* comes with a STALL instead of the status stage; a token that follows a
\* token; an OUT transaction that is NAKed and repeated; start-of-frames
\* before another packet; a setup whose data packet is cut short, and one
\* without a data packet
RequestCaptures ==
    {SetupChunk(0, 7, 256, 4) \o DataChunk(PID_OUT, 0, <<49, 50, 51, 52>>, PID_ACK)
        \o DataChunk(PID_IN, 0, <<>>, PID_ACK),
     SetupChunk(133, 6, 256, 1) \o DataChunk(PID_IN, 0, <<18>>, PID_ACK)
        \o DataChunk(PID_OUT, 0, <<>>, PID_ACK),
     SetupChunk(128, 6, 256, 1) \o NoDataChunk(PID_IN, 0, PID_STALL)
        \o SetupChunk(0, 9, 1, 0),
     SetupChunk(133, 6, 256, 1) \o NoDataChunk(PID_IN, 0, PID_STALL)
        \o SetupChunk(0, 9, 1, 0),
     SetupChunk(1, 9, 1, 0) \o DataChunk(PID_IN, 0, <<>>, PID_ACK),
     SetupChunk(128, 6, 256, 8) \o DataChunk(PID_IN, 0, FullPayload, PID_ACK)
        \o DataChunk(PID_OUT, 0, <<>>, PID_ACK),
     SetupChunk(128, 6, 256, 8) \o DataChunk(PID_IN, 0, FullPayload, PID_ACK)
        \o StalledSetupChunk(0, 9, 1, 0),
     DataChunk(PID_IN, 0, FullPayload, PID_ACK) \o SetupChunk(0, 9, 1, 0),
     DataChunk(PID_OUT, 0, FullPayload, PID_ACK) \o SetupChunk(0, 9, 1, 0),
     DataChunk(PID_IN, 0, FullPayload, PID_ACK)
        \o DataChunk(PID_OUT, 0, FullPayload, PID_ACK),
     <<from_raw_packet(PID_IN, TokenPayload(0, 3))>>
        \o DataChunk(PID_IN, 1, <<7>>, PID_ACK),
     DataChunk(PID_OUT, 1, <<7>>, PID_NAK)
        \o DataChunk(PID_OUT, 1, <<7>>, PID_ACK),
     <<from_raw_packet(PID_SOF, <<1, 2>>), from_raw_packet(PID_SOF, <<3, 2>>),
       from_raw_packet(PID_ACK, <<>>)>>,
     DataChunk(PID_SETUP, 0, <<128, 6, 0>>, PID_ACK),
     NoDataChunk(PID_SETUP, 0, PID_ACK) \o SetupChunk(0, 9, 1, 0)}

\* a stream of full packets that a zero-length packet ends
Stream(endpoint, n) ==
    Flatten([k \in 1..n |-> DataChunk(PID_IN, endpoint, FullPayload, PID_ACK)])
    \o DataChunk(PID_IN, endpoint, <<>>, PID_ACK)

\* the packets of a capture get their identity and their timestamp, in
\* microseconds: a packet every `period`
StampEvery(packets, period) ==
    [i \in 1..Len(packets) |->
        [packets[i] EXCEPT !.id = i,
                           !.timestamp = i * period]]

\* the packets of a capture get their identity and their timestamp
Stamp(packets) ==
    [i \in 1..Len(packets) |->
        [packets[i] EXCEPT !.id = i,
                           !.timestamp = i * 1000]]

\* streams on a bulk endpoint and on endpoint 0 whose transactions are
\* 3 ms, 6 ms and 12 ms apart
TimedCaptures ==
    {StampEvery(Stream(1, 2), 1000), StampEvery(Stream(1, 3), 2000),
     StampEvery(Stream(0, 2) \o Stream(1, 2), 4000)}

\* the tokens of `packets` address another device
ForDevice(address, packets) ==
    [i \in 1..Len(packets) |->
        IF packets[i].pid \in {PID_SETUP, PID_IN, PID_OUT}
        THEN [packets[i] EXCEPT
                 !.data = <<address + 128 * (@[1] \div 128), @[2]>>]
        ELSE packets[i]]

\* transfers that are interleaved with transfers of other pipes: the control
\* requests of two devices, and the two directions of endpoint 1 around a
\* data and a status stage on endpoint 0
InterleavedCaptures ==
    {SetupChunk(128, 6, 256, 8) \o ForDevice(6, SetupChunk(128, 6, 256, 8))
        \o DataChunk(PID_IN, 0, FullPayload, PID_ACK)
        \o ForDevice(6, DataChunk(PID_IN, 0, FullPayload, PID_ACK))
        \o DataChunk(PID_OUT, 0, <<>>, PID_ACK)
        \o ForDevice(6, DataChunk(PID_OUT, 0, <<>>, PID_ACK)),
     DataChunk(PID_IN, 1, FullPayload, PID_ACK)
        \o DataChunk(PID_OUT, 1, FullPayload, PID_ACK)
        \o DataChunk(PID_IN, 0, FullPayload, PID_ACK)
        \o DataChunk(PID_OUT, 0, <<>>, PID_ACK)
        \o DataChunk(PID_IN, 1, <<>>, PID_ACK)
        \o DataChunk(PID_OUT, 1, <<7>>, PID_ACK)}

Captures ==
    UNION {{Stamp(Flatten(cs)) : cs \in ChunkSequences(n)} : n \in 1..MaxChunks}
    \cup {Stamp(c) : c \in EdgeCaptures \cup ScenarioCaptures}
    \cup {Stamp(c) : c \in RequestCaptures \cup InterleavedCaptures}
    \cup TimedCaptures

----------------------------------------------------------------------------
(* analyzer.py: ViewSBAnalyzer.run and what it calls; backend.py           *)

\* the decoders as ViewSBAnalyzer.__init__ instantiates them
NewDecoders ==
    [sof |-> <<>>, transaction |-> <<>>, transfer |-> <<>>, control |-> <<>>]

\* rhododendron.py: USBHackDelineator.__init__; `pc` is where submit_data is
\* ("idle": not called, "while": at the test of divine_boundaries' loop,
\* "for": at the head of its scan of lengths), `length` the scan's variable,
\* `emitted` what emit_packet received and `received` how many bytes
\* submit_data was given
NewDelineator ==
    [pending_data |-> <<>>, pc |-> "idle", length |-> 0, emitted |-> <<>>,
     received |-> 0]

\* usbmon.py: USBMonBackend.__init__; `events` is what handle_data has been
\* given, `emitted` what emit_packet has received, for which callback and
\* with which submission, and `raised` whether an exception has left
\* handle_data
NewUSBMon ==
    [pending_urbs |-> <<>>, events |-> <<>>, emitted |-> <<>>,
     raised |-> FALSE, next_id |-> 1]

\* a descriptor request whose payload is not being parsed: `data` is what
\* is left of the payload, `subordinates` the list the parse fills and `pc`
\* where the parse is ("head": before the descriptor itself is decoded,
\* "while": at the test of the loop over what is left, "done", "raised")
NewRequest == [data |-> <<>>, subordinates |-> <<>>, pc |-> "idle"]

Init ==
    /\ capture \in Captures
    /\ descriptor = NewRequest
    /\ usbmon = NewUSBMon
    /\ delineator = NewDelineator
    /\ backend_pos = 0
    /\ output_queue = <<>>
    /\ analysis_queue = <<>>
    /\ decoders = NewDecoders
    /\ data_queue = <<>>
    /\ pc = "loop"
    /\ frontend_alive = TRUE
    /\ backend_alive = TRUE
    /\ next_id = Len(capture) + 1
    /\ dequeued = <<>>
    /\ enqueued = <<>>
    /\ consumed = [i \in 0..NumStages |-> <<>>]
    /\ last = [id |-> 0, by |-> 0, offered |-> <<>>, error |-> FALSE]
    /\ termination_event = FALSE
    /\ worker = [pc |-> "test", setup |-> 0, run_capture |-> FALSE,
                 handle_termination |-> 0]

\* ViewSBBackend.run, the test of its loop: another run_capture while the
\* termination event is not set; handle_termination, the return and the end
\* of the process once it is.  run() calls no setup()
backend_run ==
    /\ backend_alive
    /\ pc \in {"loop", "drain", "fetch", "stopping"}
    /\ worker.pc = "test"
    /\ IF termination_event
       THEN /\ worker' = [worker EXCEPT !.pc = "done",
                                        !.handle_termination = @ + 1]
            /\ backend_alive' = FALSE
       ELSE /\ worker' = [worker EXCEPT !.pc = "run_capture"]
            /\ UNCHANGED backend_alive
    /\ UNCHANGED <<others, capture, backend_pos, output_queue, analysis_queue,
                   decoders, data_queue, pc, frontend_alive, next_id,
                   dequeued, enqueued, consumed, last, termination_event>>

\* run_capture finding a packet: ViewSBBackend.emit_packet, in the backend's
\* process
backend_emit_packet ==
    /\ backend_alive
    /\ pc \in {"loop", "drain", "fetch", "stopping"}
    /\ worker.pc = "run_capture"
    /\ backend_pos < Len(capture)
    /\ Len(output_queue) < MaxOutputQueue
    /\ output_queue' = Append(output_queue, capture[backend_pos + 1])
    /\ backend_pos' = backend_pos + 1
    /\ worker' = [worker EXCEPT !.pc = "test", !.run_capture = TRUE]
    /\ UNCHANGED <<others, capture, analysis_queue, decoders, data_queue, pc,
                   frontend_alive, backend_alive, next_id, dequeued, enqueued,
                   consumed, last, termination_event>>

\* run_capture finding nothing to read
run_capture ==
    /\ backend_alive
    /\ pc \in {"loop", "drain", "fetch", "stopping"}
    /\ worker.pc = "run_capture"
    /\ backend_pos = Len(capture)
    /\ worker' = [worker EXCEPT !.pc = "test", !.run_capture = TRUE]
    /\ UNCHANGED <<others, capture, backend_pos, output_queue, analysis_queue,
                   decoders, data_queue, pc, frontend_alive, backend_alive,
                   next_id, dequeued, enqueued, consumed, last,
                   termination_event>>

\* the backend's process ends by itself
backend_exits ==
    /\ backend_alive
    /\ pc \in {"loop", "drain", "fetch"}
    /\ backend_alive' = FALSE
    /\ worker' = [worker EXCEPT !.pc = "died"]
    /\ UNCHANGED <<others, capture, backend_pos, output_queue, analysis_queue,
                   decoders, data_queue, pc, frontend_alive, next_id,
                   dequeued, enqueued, consumed, last, termination_event>>

\* the frontend's process ends: the user closed the display
frontend_exits ==
    /\ frontend_alive
    /\ pc \in {"loop", "drain", "fetch"}
    /\ frontend_alive' = FALSE
    /\ UNCHANGED <<others, capture, backend_pos, output_queue, analysis_queue,
                   decoders, data_queue, pc, backend_alive, next_id,
                   dequeued, enqueued, consumed, last, termination_event,
                   worker>>

\* ViewSBAnalyzer.should_halt
should_halt == ~(frontend_alive /\ backend_alive)

\* the head of the loop of ViewSBAnalyzer.run: either another iteration
\* (packets_may_arrive is always true) or backend.stop(), which sets the
\* termination event and then joins the backend's process
run_loop ==
    /\ pc = "loop"
    /\ IF should_halt
       THEN /\ pc' = "stopping"
            /\ termination_event' = TRUE
       ELSE /\ pc' = "drain"
            /\ UNCHANGED termination_event
    /\ UNCHANGED <<others, capture, backend_pos, output_queue, analysis_queue,
                   decoders, data_queue, frontend_alive, backend_alive,
                   next_id, dequeued, enqueued, consumed, last, worker>>

\* ViewSBBackendProcess.stop returns from join() once the backend's process
\* has ended; frontend.stop() follows and run() returns
backend_joined ==
    /\ pc = "stopping"
    /\ ~backend_alive
    /\ pc' = "stopped"
    /\ frontend_alive' = FALSE
    /\ UNCHANGED <<others, capture, backend_pos, output_queue, analysis_queue,
                   decoders, data_queue, backend_alive, next_id, dequeued,
                   enqueued, consumed, last, termination_event, worker>>

\* emit_packet putting the packets in front of the ones that wait
emit_packet_at_head(queue, packets) == packets \o queue

\* ViewSBDecoder.emit_packet / add_packet_to_analysis_queue: the tail
emit_packet(queue, packets) == queue \o packets

\* ViewSBAnalyzer.emit_to_frontend with ProcessManager.issue_packet
emit_to_frontend(queue, packet) == Append(queue, packet)

\* one round of the loop of process_analysis_queue after get_nowait gave
\* `packet`: `r` is what the decoders made of it
analysed(packet, r) ==
    /\ analysis_queue' = emit_packet(Tail(analysis_queue), r.emitted)
    /\ decoders' = r.d
    /\ next_id' = next_id + Len(r.emitted)
    /\ data_queue' = IF ~r.error /\ r.by = 0
                     THEN emit_to_frontend(data_queue, packet)
                     ELSE data_queue
    /\ pc' = IF r.error THEN "crashed" ELSE "drain"
    /\ dequeued' = Append(dequeued, packet.id)
    /\ enqueued' = enqueued \o
           [k \in 1..Len(r.emitted) |->
               [by |-> r.emitted_by[k], packet |-> r.emitted[k]]]
    /\ consumed' = IF r.error THEN consumed
                   ELSE [consumed EXCEPT ![r.by] = Append(@, packet)]
    /\ last' = [id |-> packet.id, by |-> r.by,
                offered |-> r.offered, error |-> r.error]

\* one round of the loop of process_analysis_queue: get_nowait, the decoder
\* chain with everything the decoders emit, emit_to_frontend when nobody
\* handled the packet.  An exception other than UnhandledPacket ends run()
process_analysis_queue ==
    /\ pc = "drain"
    /\ analysis_queue # <<>>
    /\ analysed(Head(analysis_queue),
                run_decoders(1, decoders, Head(analysis_queue), next_id))
    /\ UNCHANGED <<others, capture, backend_pos, output_queue, frontend_alive,
                   backend_alive, termination_event, worker>>

\* process_analysis_queue returning while packets are still queued
process_analysis_queue_returns_early ==
    /\ pc = "drain"
    /\ pc' = "fetch"
    /\ UNCHANGED <<others, capture, backend_pos, output_queue, analysis_queue,
                   decoders, data_queue, frontend_alive, backend_alive,
                   next_id, dequeued, enqueued, consumed, last,
                   termination_event, worker>>

\* process_analysis_queue returns: get_nowait raised queue.Empty
process_analysis_queue_returns ==
    /\ pc = "drain"
    /\ analysis_queue = <<>>
    /\ pc' = "fetch"
    /\ UNCHANGED <<others, capture, backend_pos, output_queue, analysis_queue,
                   decoders, data_queue, frontend_alive, backend_alive,
                   next_id, dequeued, enqueued, consumed, last,
                   termination_event, worker>>

\* fetch_backend_packets: ViewSBBackendProcess.read_packet drops its timeout
\* and calls output_queue.get(blocking), which waits until a packet is there
fetch_backend_packets ==
    /\ pc = "fetch"
    /\ output_queue # <<>>
    /\ analysis_queue' = Append(analysis_queue, Head(output_queue))
    /\ output_queue' = Tail(output_queue)
    /\ enqueued' = Append(enqueued, [by |-> 0, packet |-> Head(output_queue)])
    /\ pc' = "loop"
    /\ UNCHANGED <<others, capture, backend_pos, decoders, data_queue,
                   frontend_alive, backend_alive, next_id, dequeued,
                   consumed, last, termination_event, worker>>

Next ==
    \/ backend_run
    \/ backend_emit_packet
    \/ run_capture
    \/ backend_exits
    \/ frontend_exits
    \/ run_loop
    \/ backend_joined
    \/ process_analysis_queue
    \/ process_analysis_queue_returns
    \/ fetch_backend_packets

Spec == Init /\ [][Next]_vars

----------------------------------------------------------------------------
(* What the logs say.                                                      *)

Range(f) == {f[k] : k \in DOMAIN f}
Ids(packets) == [k \in DOMAIN packets |-> packets[k].id]

\* the packets stage s handed to emit_packet, in order
EmittedBy(s) == SelectSeq(enqueued, LAMBDA e : e.by = s)

GroupingStages == {STAGE_TRANSACTION, STAGE_TRANSFER, STAGE_CONTROL}
SpecializingStages ==
    {STAGE_SPECIALIZER, STAGE_TRANSACTION_SPECIALIZER, STAGE_STANDARD,
     STAGE_DESCRIPTOR}

\* the buffers of a grouping stage, by pipe
StageBuffers(s) ==
    CASE s = STAGE_TRANSACTION -> [pipe \in {0} |-> decoders.transaction]
      [] s = STAGE_TRANSFER    -> decoders.transfer
      [] s = STAGE_CONTROL     -> decoders.control

\* the places of a stage's buffers that hold the packet
HeldIn(s, p) ==
    LET buffers == StageBuffers(s)
    IN  UNION {{<<pipe, k>> : k \in {j \in DOMAIN buffers[pipe] :
                                        buffers[pipe][j].id = p.id}} :
               pipe \in DOMAIN buffers}

\* the emitted packet was built from p by copying its fields
BuiltFrom(e, p) ==
    /\ e.type \in {"MalformedPacket", "USBSetupTransfer"}
    /\ e.timestamp = p.timestamp
    /\ e.data = p.data
    /\ e.subordinate_packets = p.subordinate_packets

\* the places among what stage s emitted that carry the packet: a place
\* among the subordinates, or place 0 for a packet built from it
CarriedBy(s, p) ==
    UNION {{<<n, k>> : k \in
               {j \in DOMAIN enqueued[n].packet.subordinate_packets :
                    enqueued[n].packet.subordinate_packets[j].id = p.id}
               \cup (IF BuiltFrom(enqueued[n].packet, p) THEN {0} ELSE {})} :
           n \in {m \in DOMAIN enqueued : enqueued[m].by = s}}

\* the subordinates that stage s consumed are in the order of their arrival
InArrivalOrder(s, e) ==
    LET ids  == Ids(e.subordinate_packets)
        cons == Ids(consumed[s])
        pos(id) == CHOOSE k \in DOMAIN cons : cons[k] = id
    IN  (\A j \in DOMAIN ids : ids[j] \in Range(cons)) =>
            \A i, j \in DOMAIN ids : i < j => pos(ids[i]) < pos(ids[j])

empty_buffers(buffers) == \A pipe \in DOMAIN buffers : buffers[pipe] = <<>>

\* C1: the grouping stages never drop data silently: every packet that the
\* transaction decoder, the transfer grouper or the control request grouper
\* consumed is held in the stage's buffer or carried by exactly one packet
\* the stage emitted (as a subordinate, in arrival order, or as the packet
\* built from it), never lost and never twice.
C1_NeverDropped ==
    \A s \in GroupingStages :
        /\ \A k \in DOMAIN consumed[s] :
               Cardinality(HeldIn(s, consumed[s][k]))
               + Cardinality(CarriedBy(s, consumed[s][k])) = 1
        /\ \A n \in DOMAIN enqueued :
               enqueued[n].by = s => InArrivalOrder(s, enqueued[n].packet)

\* C2: a dequeued packet is offered to the stages in chain order until one
\* consumes it; a packet nobody consumes, every MalformedPacket among them,
\* is delivered to the display once and unchanged; and no violation in the
\* captured data aborts the pipeline.
C2_DeliveredNeverAborted ==
    /\ pc # "crashed"
    /\ last.id # 0 =>
           last.offered = [k \in 1..(IF last.by = 0 THEN NumStages
                                     ELSE last.by) |-> k]
    /\ data_queue = consumed[0]
    /\ \A n \in 1..Len(dequeued) :
           enqueued[n].packet.type = "MalformedPacket" =>
               Cardinality({k \in DOMAIN data_queue :
                               data_queue[k] = enqueued[n].packet}) = 1

\* C3: when the driver has observed termination and shut down, a final
\* drain has happened: nothing waits in the analysis queue and no stage
\* holds a partially built packet.
C3_FinalDrain ==
    pc = "stopped" =>
        /\ analysis_queue = <<>>
        /\ decoders.sof = <<>>
        /\ decoders.transaction = <<>>
        /\ empty_buffers(decoders.transfer)
        /\ empty_buffers(decoders.control)

\* C4: an emitted packet goes to the tail of the analysis queue and is
\* processed on a later dequeue, from the first stage on; packets leave the
\* queue in the order in which they entered it.
C4_Fifo ==
    /\ Len(dequeued) + Len(analysis_queue) = Len(enqueued)
    /\ dequeued = [k \in 1..Len(dequeued) |-> enqueued[k].packet.id]
    /\ analysis_queue = [k \in 1..Len(analysis_queue) |->
                            enqueued[Len(dequeued) + k].packet]
    /\ last.id # 0 => Head(last.offered) = STAGE_SPECIALIZER

\* an emitted packet has been processed while another one was emitted
\* before it and two more wait behind it
C4_Witness ==
    /\ Len(analysis_queue) >= 2
    /\ \E n \in 1..Len(dequeued) :
           /\ n >= 2
           /\ enqueued[n].by > 0
           /\ enqueued[n - 1].by > 0

\* C5: the capture poll returns although the backend has no packet: while
\* the driver is in fetch_backend_packets, the call can return.
C5_PollReturns ==
    pc = "fetch" => ENABLED fetch_backend_packets

\* C6: an iteration drains the analysis queue completely and then polls
\* once: the poll starts on an empty queue, it adds at most one packet, and
\* a raw packet in the queue is alone in it.
C6_DrainThenPoll ==
    /\ pc = "fetch" => analysis_queue = <<>>
    /\ pc = "loop" => Len(analysis_queue) <= 1
    /\ \A k \in DOMAIN analysis_queue :
           analysis_queue[k].type = "USBPacket" => Len(analysis_queue) = 1

\* the poll is about to take the next raw packet after the packets derived
\* from the ones before it have been drained
C6_Witness ==
    /\ pc = "fetch"
    /\ output_queue # <<>>
    /\ \E n \in 1..Len(dequeued) : enqueued[n].by > 0

\* C7: draining reaches its fixed point: process_analysis_queue ends only
\* by returning, with the analysis queue empty.
C7_DrainReturns ==
    [][pc = "drain" =>
          \/ pc' = "drain"
          \/ pc' = "fetch" /\ analysis_queue' = <<>>]_vars

\* C8: no double specialization: what a specializing stage emitted is
\* rejected by the can_handle_packet of that stage, and the stage never
\* consumed a packet it emitted.
C8_NoDoubleSpecialization ==
    \A n \in DOMAIN enqueued :
        enqueued[n].by \in SpecializingStages =>
            /\ ~can_handle_packet(enqueued[n].by, enqueued[n].packet)
            /\ enqueued[n].packet.id
                   \notin Range(Ids(consumed[enqueued[n].by]))

\* a specialized standard request has come back to the stage that made it
\* and has gone past it
C8_Witness ==
    /\ last.id # 0
    /\ last.by # STAGE_STANDARD
    /\ STAGE_STANDARD \in Range(last.offered)
    /\ \E n \in DOMAIN enqueued :
           /\ enqueued[n].by = STAGE_STANDARD
           /\ enqueued[n].packet.id = last.id

\* the k-th packet the specializer consumed and what it made of it
SpecializedAs(k) == EmittedBy(STAGE_SPECIALIZER)[k].packet

\* C9 as written: every packet with a PID of the token category, SOF among
\* them, whose payload is not 2 bytes long becomes a MalformedPacket.
C9_EveryTokenPid ==
    \A k \in DOMAIN consumed[STAGE_SPECIALIZER] :
        LET raw == consumed[STAGE_SPECIALIZER][k]
        IN  is_token(raw.pid) /\ Len(raw.data) # 2
                => SpecializedAs(k).type = "MalformedPacket"

\* C9: a packet with the PID OUT, IN or SETUP whose payload is not 2 bytes
\* long becomes a MalformedPacket with the packet's payload; a SOF becomes a
\* USBStartOfFrame whatever its length.
C9_TokenLength ==
    \A k \in DOMAIN consumed[STAGE_SPECIALIZER] :
        LET raw == consumed[STAGE_SPECIALIZER][k]
        IN  /\ raw.pid \in {PID_OUT, PID_IN, PID_SETUP} /\ Len(raw.data) # 2
                => /\ SpecializedAs(k).type = "MalformedPacket"
                   /\ SpecializedAs(k).data = raw.data
            /\ raw.pid = PID_SOF => SpecializedAs(k).type = "USBStartOfFrame"

\* an OUT token of 3 bytes and a SOF of 3 bytes have been specialized
C9_Witness ==
    /\ \E k \in DOMAIN consumed[STAGE_SPECIALIZER] :
           /\ consumed[STAGE_SPECIALIZER][k].pid = PID_OUT
           /\ Len(consumed[STAGE_SPECIALIZER][k].data) = 3
    /\ \E k \in DOMAIN consumed[STAGE_SPECIALIZER] :
           /\ consumed[STAGE_SPECIALIZER][k].pid = PID_SOF
           /\ Len(consumed[STAGE_SPECIALIZER][k].data) = 3

\* C10: a data packet is accepted iff its payload is 2 to 1026 bytes long,
\* both included; crc16 is then its last 2 bytes and data the rest; any
\* other length gives a MalformedPacket.
C10_DataLength ==
    \A k \in DOMAIN consumed[STAGE_SPECIALIZER] :
        LET raw == consumed[STAGE_SPECIALIZER][k]
            L   == Len(raw.data)
        IN  is_data(raw.pid) =>
                IF 2 <= L /\ L <= 1026
                THEN /\ SpecializedAs(k).type = "USBDataPacket"
                     /\ SpecializedAs(k).crc16 = SubSeq(raw.data, L - 1, L)
                     /\ SpecializedAs(k).data = SubSeq(raw.data, 1, L - 2)
                ELSE SpecializedAs(k).type = "MalformedPacket"

----------------------------------------------------------------------------
(* What one round of process_analysis_queue did, read off the step.        *)

\* the step is a round of process_analysis_queue on Head(analysis_queue)
Round == pc = "drain" /\ Len(dequeued') = Len(dequeued) + 1

\* the round's packet got as far as stage s and stopped there: s consumed
\* it, or an exception left s
RoundAt(s) ==
    /\ Round
    /\ last'.offered[Len(last'.offered)] = s
    /\ last'.by = s \/ last'.error

\* the packets stage s handed to emit_packet in the round, in order
RoundEmitted(s) ==
    LET mine == SelectSeq(SubSeq(enqueued', Len(enqueued) + 1, Len(enqueued')),
                          LAMBDA e : e.by = s)
    IN  [k \in DOMAIN mine |-> mine[k].packet]

\* C11: a token, a data packet and a handshake that reach the transaction
\* decoder in that order, the token on an empty buffer, give nothing on the
\* token and on the data packet and exactly one USBTransaction on the
\* handshake: its token is the first packet's PID, its handshake the last
\* packet's PID, its data the middle packet's data, its subordinates the
\* three packets in order; the buffer is empty afterwards.
C11_TransactionOfThree ==
    [][RoundAt(STAGE_TRANSACTION) =>
          LET packet == Head(analysis_queue)
              buf    == decoders.transaction
              e      == RoundEmitted(STAGE_TRANSACTION)
          IN  /\ (packet.type = "USBTokenPacket" /\ buf = <<>>)
                  => (e = <<>> /\ decoders'.transaction = <<packet>>)
              /\ (/\ packet.type = "USBDataPacket"
                  /\ Len(buf) = 1
                  /\ buf[1].type = "USBTokenPacket")
                  => (e = <<>> /\ decoders'.transaction = <<buf[1], packet>>)
              /\ (/\ packet.type = "USBHandshakePacket"
                  /\ Len(buf) = 2
                  /\ buf[1].type = "USBTokenPacket"
                  /\ buf[2].type = "USBDataPacket")
                  => (/\ Len(e) = 1
                      /\ e[1].type = "USBTransaction"
                      /\ e[1].token = buf[1].pid
                      /\ e[1].handshake = packet.pid
                      /\ e[1].data = buf[2].data
                      /\ e[1].data_pid = buf[2].pid
                      /\ e[1].subordinate_packets = <<buf[1], buf[2], packet>>
                      /\ decoders'.transaction = <<>>)]_vars

\* the transaction decoder has emitted a transaction of a token, a data
\* packet that carries data and a handshake
C11_Witness ==
    \E n \in DOMAIN enqueued :
        /\ enqueued[n].by = STAGE_TRANSACTION
        /\ Len(enqueued[n].packet.subordinate_packets) = 3
        /\ enqueued[n].packet.subordinate_packets[1].type = "USBTokenPacket"
        /\ enqueued[n].packet.subordinate_packets[2].type = "USBDataPacket"
        /\ enqueued[n].packet.subordinate_packets[3].type = "USBHandshakePacket"
        /\ enqueued[n].packet.data = FullPayload

\* C12: a token that reaches the transaction decoder while its buffer is
\* not empty makes it emit the buffered packets as one USBTransaction that
\* is flagged as a sequence error, so that it differs from the transaction
\* a flush without error makes of the same packets; the token then starts
\* a fresh buffer and no exception leaves the decoder.
C12_SequenceErrorFlagged ==
    [][(/\ RoundAt(STAGE_TRANSACTION)
        /\ Head(analysis_queue).type = "USBTokenPacket"
        /\ decoders.transaction # <<>>) =>
          LET e == RoundEmitted(STAGE_TRANSACTION)
          IN  /\ ~last'.error
              /\ Len(e) = 1
              /\ e[1].type = "USBTransaction"
              /\ e[1].subordinate_packets = decoders.transaction
              /\ decoders'.transaction = <<Head(analysis_queue)>>
              /\ e # emit_transaction(decoders.transaction, FALSE, e[1].id)]_vars

\* the buffer of the control request grouper for the pipe of the packet
ControlBuffer(packet) ==
    Get(decoders.control, control_pipe_identifier_for_packet(packet))

\* the same buffer after the step
ControlBufferAfter(packet) ==
    Get(decoders'.control, control_pipe_identifier_for_packet(packet))

\* C13: a setup stage with request_length > 0, a data-stage transfer and an
\* ACKed status-stage transfer of one device, reaching the control request
\* grouper in that order, give nothing on the first two and exactly one
\* USBControlTransfer on the third: its direction is the setup stage's
\* request direction, its data the data piece's bytes, its stalled false and
\* its subordinates the three pieces in order.
C13_ControlTransferOfThree ==
    [][RoundAt(STAGE_CONTROL) =>
          LET packet == Head(analysis_queue)
              buf    == ControlBuffer(packet)
              e      == RoundEmitted(STAGE_CONTROL)
          IN  /\ (/\ Len(buf) = 1
                  /\ buf[1].type = "USBSetupTransfer"
                  /\ buf[1].request_length > 0
                  /\ packet.type = "USBDataTransfer"
                  /\ packet.handshake # PID_STALL)
                  => (/\ ~last'.error
                      /\ e = <<>>
                      /\ ControlBufferAfter(packet) = <<buf[1], packet>>)
              /\ (/\ Len(buf) = 2
                  /\ buf[1].type = "USBSetupTransfer"
                  /\ buf[1].request_length > 0
                  /\ packet.type = "USBDataTransfer"
                  /\ packet.handshake = PID_ACK)
                  => (/\ ~last'.error
                      /\ Len(e) = 1
                      /\ e[1].type = "USBControlTransfer"
                      /\ e[1].direction = buf[1].request_direction
                      /\ e[1].data = buf[2].data
                      /\ e[1].stalled = "False"
                      /\ e[1].subordinate_packets = <<buf[1], buf[2], packet>>
                      /\ ControlBufferAfter(packet) = <<>>)]_vars

\* the buffer of the transfer grouper for the pipe of the packet, before and
\* after the step
TransferBuffer(packet) ==
    Get(decoders.transfer, transfer_pipe_identifier_for_packet(packet))

TransferBufferAfter(packet) ==
    Get(decoders'.transfer, transfer_pipe_identifier_for_packet(packet))

\* an ACKed data transaction whose length is a non-zero multiple of 8
FullAcked(p) ==
    /\ p.type = "USBDataTransaction"
    /\ p.handshake = PID_ACK
    /\ p.data # NoData
    /\ Len(p.data) > 0
    /\ Len(p.data) % 8 = 0

RECURSIVE Payloads(_)
\* the data of the packets, one after the other
Payloads(packets) ==
    IF packets = <<>> THEN <<>>
    ELSE Head(packets).data \o Payloads(Tail(packets))

\* the packet follows the last one buffered by at most 10 ms
Within10ms(buf, packet) ==
    buf # <<>> => packet.timestamp - buf[Len(buf)].timestamp <= 10000

\* C14: on a pipe that is not a control pipe, ACKed data transactions whose
\* lengths are non-zero multiples of 8, at most 10 ms apart, are buffered
\* and nothing is emitted for them; the ACKed zero-length transaction that
\* follows them makes the transfer grouper emit exactly one USBDataTransfer
\* whose data is the concatenation of their payloads in arrival order.
C14_BulkStream ==
    [][(/\ RoundAt(STAGE_TRANSFER)
        /\ Head(analysis_queue).type = "USBDataTransaction"
        /\ Head(analysis_queue).endpoint_number # 0
        /\ \A k \in DOMAIN TransferBuffer(Head(analysis_queue)) :
               FullAcked(TransferBuffer(Head(analysis_queue))[k])
        /\ Within10ms(TransferBuffer(Head(analysis_queue)),
                      Head(analysis_queue))) =>
          LET packet == Head(analysis_queue)
              buf    == TransferBuffer(packet)
              e      == RoundEmitted(STAGE_TRANSFER)
          IN  /\ ~last'.error
              /\ FullAcked(packet)
                  => (e = <<>> /\ TransferBufferAfter(packet) = Append(buf, packet))
              /\ (/\ buf # <<>>
                  /\ packet.handshake = PID_ACK
                  /\ packet.data = <<>>)
                  => (/\ Len(e) = 1
                      /\ e[1].type = "USBDataTransfer"
                      /\ e[1].data = Payloads(buf)
                      /\ e[1].subordinate_packets = Append(buf, packet)
                      /\ TransferBufferAfter(packet) = <<>>)]_vars

\* the transfer grouper has emitted the transfer of a stream of three full
\* packets and a zero-length packet
C14_Witness ==
    \E n \in DOMAIN enqueued :
        /\ enqueued[n].by = STAGE_TRANSFER
        /\ enqueued[n].packet.type = "USBDataTransfer"
        /\ enqueued[n].packet.endpoint_number = 1
        /\ Len(enqueued[n].packet.subordinate_packets) = 4
        /\ enqueued[n].packet.data = FullPayload \o FullPayload \o FullPayload

\* the timestamps of the subordinates of a transfer, in order
Timestamps(transfer) ==
    [k \in DOMAIN transfer.subordinate_packets |->
        transfer.subordinate_packets[k].timestamp]

\* C15 as written: no transfer of a pipe that is not a control pipe holds
\* two transactions whose timestamps differ by more than 10 ms.
C15_AnyTwoTransactions ==
    \A n \in DOMAIN enqueued :
        (/\ enqueued[n].by = STAGE_TRANSFER
         /\ enqueued[n].packet.type = "USBDataTransfer"
         /\ enqueued[n].packet.endpoint_number # 0) =>
            \A i, j \in DOMAIN Timestamps(enqueued[n].packet) :
                Timestamps(enqueued[n].packet)[j]
                - Timestamps(enqueued[n].packet)[i] <= 10000

\* C15: a transaction of a pipe that is not a control pipe that comes more
\* than 10 ms after the transaction buffered last on its pipe is never put
\* in the same transfer: the buffer is flushed as a transfer of its own
\* before the transaction is enqueued.  On endpoint 0 a transaction of the
\* buffer's direction joins the buffered ones whatever its timestamp.
C15_Discontinuity ==
    [][(/\ RoundAt(STAGE_TRANSFER)
        /\ Head(analysis_queue).type = "USBDataTransaction"
        /\ TransferBuffer(Head(analysis_queue)) # <<>>) =>
          LET packet == Head(analysis_queue)
              buf    == TransferBuffer(packet)
              e      == RoundEmitted(STAGE_TRANSFER)
              after  == TransferBufferAfter(packet)
          IN  /\ (/\ packet.endpoint_number # 0
                  /\ packet.timestamp - buf[Len(buf)].timestamp > 10000)
                  => (/\ Len(e) >= 1
                      /\ e[1].subordinate_packets = buf
                      /\ \/ Len(e) = 1 /\ after = <<packet>>
                         \/ /\ Len(e) = 2
                            /\ e[2].subordinate_packets = <<packet>>
                            /\ after = <<>>)
              /\ (/\ packet.endpoint_number = 0
                  /\ packet.direction = buf[1].direction)
                  => \/ e = <<>> /\ after = Append(buf, packet)
                     \/ /\ Len(e) = 1
                        /\ e[1].subordinate_packets = Append(buf, packet)
                        /\ after = <<>>]_vars

\* transactions 12 ms apart: on endpoint 0 they have been emitted as one
\* transfer, on endpoint 1 the first has been emitted alone
C15_Witness ==
    /\ \E n \in DOMAIN enqueued :
           /\ enqueued[n].by = STAGE_TRANSFER
           /\ enqueued[n].packet.type = "USBDataTransfer"
           /\ enqueued[n].packet.endpoint_number = 0
           /\ Len(Timestamps(enqueued[n].packet)) = 3
           /\ Timestamps(enqueued[n].packet)[2]
              - Timestamps(enqueued[n].packet)[1] > 10000
    /\ \E n \in DOMAIN enqueued :
           /\ enqueued[n].by = STAGE_TRANSFER
           /\ enqueued[n].packet.type = "USBDataTransfer"
           /\ enqueued[n].packet.endpoint_number = 1
           /\ Len(enqueued[n].packet.subordinate_packets) = 1
           /\ FullAcked(enqueued[n].packet.subordinate_packets[1])

\* C16: when the piece that follows a setup stage with request_length > 0
\* in the control request grouper's buffer carries a STALL handshake, the
\* grouper finalizes the request in that call: it emits exactly one
\* USBControlTransfer with stalled true whose subordinates are the setup
\* stage and that piece, and keeps nothing to wait for a status stage.
C16_StalledDataStage ==
    [][(/\ RoundAt(STAGE_CONTROL)
        /\ Len(ControlBuffer(Head(analysis_queue))) = 1
        /\ ControlBuffer(Head(analysis_queue))[1].type = "USBSetupTransfer"
        /\ ControlBuffer(Head(analysis_queue))[1].request_length > 0
        /\ Head(analysis_queue).type = "USBDataTransfer"
        /\ Head(analysis_queue).handshake = PID_STALL) =>
          LET packet == Head(analysis_queue)
              buf    == ControlBuffer(packet)
              e      == RoundEmitted(STAGE_CONTROL)
          IN  /\ ~last'.error
              /\ Len(e) = 1
              /\ e[1].type = "USBControlTransfer"
              /\ e[1].stalled = "True"
              /\ e[1].subordinate_packets = <<buf[1], packet>>
              /\ ControlBufferAfter(packet) = <<>>]_vars

\* C17: a USBStartOfFrame that reaches the conglomerator is consumed and
\* buffered and nothing is emitted; the packet that is no USBStartOfFrame
\* and reaches it while k >= 1 are buffered makes it emit exactly one
\* USBStartOfFrameCollection whose subordinate_packets are the k buffered
\* start-of-frames, empties the buffer, and is not consumed by it.
C17_CollectionHoldsRun ==
    [][(Round /\ STAGE_CONGLOMERATOR \in Range(last'.offered)) =>
          LET packet == Head(analysis_queue)
              e      == RoundEmitted(STAGE_CONGLOMERATOR)
          IN  /\ packet.type = "USBStartOfFrame"
                  => (/\ last'.by = STAGE_CONGLOMERATOR
                      /\ e = <<>>
                      /\ decoders'.sof = Append(decoders.sof, packet))
              /\ (packet.type # "USBStartOfFrame" /\ decoders.sof # <<>>)
                  => (/\ last'.by # STAGE_CONGLOMERATOR
                      /\ Len(e) = 1
                      /\ e[1].type = "USBStartOfFrameCollection"
                      /\ e[1].subordinate_packets = decoders.sof
                      /\ decoders'.sof = <<>>)]_vars

\* ------------------------------------------------------------------------
\* C18: the backend's lifecycle in its process is setup() exactly once, then
\* run_capture() while termination is not requested, then
\* handle_termination() exactly once: run_capture is never called before
\* setup() has completed nor after handle_termination(), and a backend that
\* has returned from run() has been set up and terminated once each.
C18_Lifecycle ==
    /\ worker.run_capture => worker.setup = 1
    /\ worker.pc = "run_capture" =>
           (worker.setup = 1 /\ worker.handle_termination = 0)
    /\ worker.handle_termination <= 1
    /\ worker.pc = "done" =>
           (worker.setup = 1 /\ worker.handle_termination = 1)

\* ------------------------------------------------------------------------
\* the class registered for a request number among the standard requests
RegisteredClass(number) ==
    CASE number = 0 -> "GetStatus"
      [] number = 5 -> "SetAddressRequest"
      [] number = 6 -> "GetDescriptorRequest"
      [] number = 9 -> "SetConfigurationRequest"
      [] OTHER      -> "None"

\* the round takes a USBControlTransfer of request type STANDARD
StandardRound ==
    /\ Round
    /\ Head(analysis_queue).type = "USBControlTransfer"
    /\ Head(analysis_queue).request_type = REQUEST_TYPE_STANDARD

\* the standard request decoder replaces `packet` by its specialization
Specialized(packet) ==
    LET e == RoundEmitted(STAGE_STANDARD)
    IN  /\ ~last'.error
        /\ last'.by = STAGE_STANDARD
        /\ Len(e) = 1
        /\ e[1].type = RegisteredClass(packet.request_number)
        /\ e[1].request_number = packet.request_number
        /\ e[1].recipient = packet.recipient
        /\ e[1].value = packet.value
        /\ e[1].data = packet.data
        /\ e[1].subordinate_packets = packet.subordinate_packets
        /\ data_queue' = data_queue

\* no decoder consumes `packet`; it goes to the frontend as it is
LeftUnconsumed(packet) ==
    /\ ~last'.error
    /\ last'.by = 0
    /\ STAGE_STANDARD \in Range(last'.offered)
    /\ Len(enqueued') = Len(enqueued)
    /\ data_queue' = Append(data_queue, packet)

\* C19 as stated: a USBControlTransfer of request type STANDARD is
\* specialized by its request_number alone: with a registered number (0, 5,
\* 6, 9) it is replaced by the matching specialized request, with any other
\* number it is left unconsumed and delivered unchanged.
C19_ByNumberAlone ==
    [][StandardRound =>
          IF RegisteredClass(Head(analysis_queue).request_number) # "None"
          THEN Specialized(Head(analysis_queue))
          ELSE LeftUnconsumed(Head(analysis_queue))]_vars

\* C19: a USBControlTransfer of request type STANDARD is replaced by the
\* specialized request registered for its request_number when its recipient
\* is the device; with another recipient, or with an unregistered number, it
\* is left unconsumed and delivered unchanged.
C19_ByNumberAndRecipient ==
    [][StandardRound =>
          IF /\ RegisteredClass(Head(analysis_queue).request_number) # "None"
             /\ Head(analysis_queue).recipient = RECIPIENT_DEVICE
          THEN Specialized(Head(analysis_queue))
          ELSE LeftUnconsumed(Head(analysis_queue))]_vars

\* a SET_CONFIGURATION not addressed to the device reached the frontend as a
\* plain USBControlTransfer
C19_Witness ==
    \E n \in DOMAIN data_queue :
        /\ data_queue[n].type = "USBControlTransfer"
        /\ data_queue[n].request_type = REQUEST_TYPE_STANDARD
        /\ data_queue[n].request_number = 9
        /\ data_queue[n].recipient # RECIPIENT_DEVICE
        /\ data_queue[n] \in Range(consumed[0])

\* ------------------------------------------------------------------------
RECURSIVE AllSubordinates(_)
\* the subordinate packets of a sequence of transfers, in order
AllSubordinates(transfers) ==
    IF transfers = <<>> THEN <<>>
    ELSE Head(transfers).subordinate_packets \o AllSubordinates(Tail(transfers))

\* no buffer of the transfer grouper is headed by a SETUP
NoSetupBuffered(transfer) ==
    \A pipe \in DOMAIN transfer :
        transfer[pipe] = <<>> \/ transfer[pipe][1].token # PID_SETUP

\* what the transfer grouper does with the USBSetupTransaction `packet` when
\* its pipe holds `buf`: it emits `e`
SetupAlone(packet, buf, e) ==
    /\ ~last'.error
    /\ last'.by = STAGE_TRANSFER
    /\ Len(e) >= 1
    /\ e[Len(e)].type = "USBSetupTransfer"
    /\ e[Len(e)].token = PID_SETUP
    /\ e[Len(e)].data = packet.data
    /\ e[Len(e)].request_number = packet.request_number
    /\ e[Len(e)].request_length = packet.request_length
    /\ \A k \in 1..(Len(e) - 1) : e[k].type = "USBDataTransfer"
    /\ AllSubordinates(SubSeq(e, 1, Len(e) - 1)) = buf
    /\ TransferBufferAfter(packet) = <<>>

\* C20: the transfer grouper that consumes a USBSetupTransaction flushes
\* what its pipe had buffered into data transfers and then emits the SETUP
\* by itself as a USBSetupTransfer, all in that call, leaving the pipe's
\* buffer empty; no buffer of the grouper is ever headed by a SETUP (so the
\* assertion len(packets) == 1 of flush_queued_packets is only reached with
\* the one SETUP just enqueued) and the call raises nothing.
C20_SetupSolitary ==
    [][/\ NoSetupBuffered(decoders'.transfer)
       /\ (/\ Round
           /\ Head(analysis_queue).type = "USBSetupTransaction") =>
              SetupAlone(Head(analysis_queue),
                         TransferBuffer(Head(analysis_queue)),
                         RoundEmitted(STAGE_TRANSFER))]_vars

\* a SETUP arrived while its pipe held a data transaction of the same
\* direction: the data transfer of that transaction and the USBSetupTransfer
\* were emitted one after the other, and the pipe's buffer is empty
C20_Witness ==
    \E n \in DOMAIN enqueued :
        /\ n + 1 \in DOMAIN enqueued
        /\ enqueued[n].by = STAGE_TRANSFER
        /\ enqueued[n].packet.type = "USBDataTransfer"
        /\ enqueued[n].packet.endpoint_number = 0
        /\ enqueued[n].packet.direction = DIR_OUT
        /\ Len(enqueued[n].packet.subordinate_packets) = 1
        /\ enqueued[n].packet.subordinate_packets[1].data = FullPayload
        /\ enqueued[n + 1].by = STAGE_TRANSFER
        /\ enqueued[n + 1].packet.type = "USBSetupTransfer"
        /\ consumed[STAGE_TRANSFER][Len(consumed[STAGE_TRANSFER])].type
               = "USBSetupTransaction"
        /\ NoSetupBuffered(decoders.transfer)
        /\ \A pipe \in DOMAIN decoders.transfer : decoders.transfer[pipe] = <<>>

\* ------------------------------------------------------------------------
\* the round takes a zero-length ACKed transaction on endpoint 0 whose
\* direction is opposite to that of the data transactions its pipe holds
StatusAfterData ==
    /\ RoundAt(STAGE_TRANSFER)
    /\ Head(analysis_queue).type = "USBDataTransaction"
    /\ Head(analysis_queue).endpoint_number = 0
    /\ Head(analysis_queue).data = <<>>
    /\ Head(analysis_queue).handshake = PID_ACK
    /\ TransferBuffer(Head(analysis_queue)) # <<>>
    /\ TransferBuffer(Head(analysis_queue))[1].direction
           # Head(analysis_queue).direction

\* C21: for a data stage on the control endpoint followed by a status
\* transaction in the opposite direction, the transfer grouper emits the
\* data-stage transactions as one USBDataTransfer and the trailing
\* transaction as a separate USBStatusTransfer, not as a second
\* USBDataTransfer.
C21_StatusTransferKind ==
    [][StatusAfterData =>
          LET packet == Head(analysis_queue)
              buf    == TransferBuffer(packet)
              e      == RoundEmitted(STAGE_TRANSFER)
          IN  /\ ~last'.error
              /\ Len(e) = 2
              /\ e[1].type = "USBDataTransfer"
              /\ e[1].subordinate_packets = buf
              /\ e[2].type = "USBStatusTransfer"
              /\ e[2].subordinate_packets = <<packet>>
              /\ TransferBufferAfter(packet) = <<>>]_vars

\* ------------------------------------------------------------------------
\* the round in which the control request grouper takes a USBSetupTransfer
SetupReachesControl ==
    /\ RoundAt(STAGE_CONTROL)
    /\ Head(analysis_queue).type = "USBSetupTransfer"

\* the grouper emitted what the device's buffer `buf` held and now holds
\* `packet` alone
RestartedWith(packet, buf, e) ==
    /\ ~last'.error
    /\ Len(e) = (IF buf = <<>> THEN 0 ELSE 1)
    /\ Len(buf) = 1 => (/\ e[1].type = "MalformedPacket"
                        /\ e[1].data = buf[1].data
                        /\ e[1].timestamp = buf[1].timestamp)
    /\ Len(buf) > 1 => (/\ e[1].type = "USBControlTransfer"
                        /\ e[1].subordinate_packets = buf)
    /\ ControlBufferAfter(packet) = <<packet>>

\* C22: after the control request grouper consumes a USBSetupTransfer,
\* everything buffered before for that device has been emitted and the
\* buffer holds exactly the new USBSetupTransfer, whatever was buffered
\* before and whatever the handshake of the new setup is.
C22_SetupRestartsBuffer ==
    [][SetupReachesControl =>
          RestartedWith(Head(analysis_queue),
                        ControlBuffer(Head(analysis_queue)),
                        RoundEmitted(STAGE_CONTROL))]_vars

\* ------------------------------------------------------------------------
\* the round in which the transaction decoder takes a data packet while the
\* last packet it holds is no token, or while it holds nothing
DataOutOfSequence ==
    /\ RoundAt(STAGE_TRANSACTION)
    /\ Head(analysis_queue).type = "USBDataPacket"
    /\ \/ decoders.transaction = <<>>
       \/ decoders.transaction[Len(decoders.transaction)].type
              # "USBTokenPacket"

\* `e` starts with the transaction made of the buffer `buf`, when there was
\* one
FlushedFirst(buf, e) ==
    /\ Len(e) >= (IF buf = <<>> THEN 0 ELSE 1)
    /\ buf # <<>> => (/\ e[1].type = "USBTransaction"
                      /\ e[1].subordinate_packets = buf)

PieceAfterSetup ==
    /\ RoundAt(STAGE_CONTROL)
    /\ Head(analysis_queue).type = "USBDataTransfer"
    /\ ControlBuffer(Head(analysis_queue)) # <<>>
    /\ ControlBuffer(Head(analysis_queue))[1].type = "USBSetupTransfer"

\* the grouper emits one USBControlTransfer made of `pieces`, with `data`,
\* and keeps nothing
EmitsControlTransfer(packet, pieces, data, e) ==
    /\ Len(e) = 1
    /\ e[1].type = "USBControlTransfer"
    /\ e[1].subordinate_packets = pieces
    /\ e[1].data = data
    /\ ControlBufferAfter(packet) = <<>>

\* what the grouper does with `packet` when the device's buffer is `buf`
WhenComplete(packet, buf, e) ==
    /\ ~last'.error
    /\ (Len(buf) = 1 /\ buf[1].request_length = 0) =>
           EmitsControlTransfer(packet, <<buf[1], packet>>, NoData, e)
    /\ Len(buf) = 2 =>
           EmitsControlTransfer(packet, <<buf[1], buf[2], packet>>,
                                get_raw_data(buf[2]), e)
    /\ (/\ Len(buf) = 1
        /\ buf[1].request_length > 0
        /\ packet.handshake # PID_STALL) =>
           (/\ e = <<>>
            /\ ControlBufferAfter(packet) = <<buf[1], packet>>)

\* C24: the control request grouper emits a USBControlTransfer as soon as
\* the request is complete and not earlier: on the second piece when the
\* setup stage declared request_length 0 (the piece is the status stage and
\* the request has no data), on the third piece otherwise; on a second
\* piece that is not stalled behind a setup stage with request_length > 0 it
\* emits nothing and keeps both.
C24_EmitsWhenComplete ==
    [][PieceAfterSetup =>
          WhenComplete(Head(analysis_queue),
                       ControlBuffer(Head(analysis_queue)),
                       RoundEmitted(STAGE_CONTROL))]_vars

\* ------------------------------------------------------------------------
\* the MalformedPacket `m` carries the fields and the subordinate packets of
\* `piece`
CarriesPiece(m, piece) ==
    /\ m.type = "MalformedPacket"
    /\ m.timestamp = piece.timestamp
    /\ m.device_address = piece.device_address
    /\ m.endpoint_number = piece.endpoint_number
    /\ m.direction = piece.direction
    /\ m.data = piece.data
    /\ m.subordinate_packets = piece.subordinate_packets

\* the USBControlTransfer `c` is made of `pieces`
MadeOf(c, pieces) ==
    /\ c.type = "USBControlTransfer"
    /\ c.subordinate_packets = pieces

\* what the flushes of one call of the grouper's consume_packet give, the
\* device's buffer being `buf` when `packet` arrives: a buffer that is not
\* headed by a setup stage is emitted as a MalformedPacket and the buffer
\* starts again with `packet`; the two or three pieces headed by a setup
\* stage that a flush finds are emitted as a USBControlTransfer
FlushOutcome(packet, buf, e) ==
    /\ ~last'.error
    /\ (buf # <<>> /\ buf[1].type # "USBSetupTransfer") =>
           (/\ Len(e) = 1
            /\ CarriesPiece(e[1], buf[1])
            /\ ControlBufferAfter(packet) = <<packet>>)
    /\ (/\ Len(buf) = 2
        /\ buf[1].type = "USBSetupTransfer"
        /\ packet.type = "USBSetupTransfer") =>
           (Len(e) >= 1 /\ MadeOf(e[1], buf))
    /\ (/\ Len(buf) = 2
        /\ buf[1].type = "USBSetupTransfer"
        /\ packet.type = "USBDataTransfer") =>
           (Len(e) = 1 /\ MadeOf(e[1], Append(buf, packet)))
    /\ (/\ Len(buf) = 1
        /\ buf[1].type = "USBSetupTransfer"
        /\ packet.type = "USBDataTransfer"
        /\ (packet.handshake = PID_STALL \/ buf[1].request_length = 0)) =>
           (Len(e) = 1 /\ MadeOf(e[1], Append(buf, packet)))

\* C25: a flush of the control request grouper that finds a buffer without
\* a setup stage at its head emits exactly one MalformedPacket with that
\* piece's fields and subordinate packets and resets the device's buffer,
\* raising nothing; a flush that finds two or three pieces headed by a setup
\* stage emits a USBControlTransfer instead.
C25_MalformedOrControl ==
    [][RoundAt(STAGE_CONTROL) =>
          FlushOutcome(Head(analysis_queue),
                       ControlBuffer(Head(analysis_queue)),
                       RoundEmitted(STAGE_CONTROL))]_vars

\* ------------------------------------------------------------------------
\* every buffer of the control request grouper holds at most two pieces
AtMostTwoBuffered(control) ==
    \A pipe \in DOMAIN control : Len(control[pipe]) <= 2

\* an exception that leaves the grouper comes from the undefined recipient
\* of the setup stage at the head of `buf`, not from a buffer of more than
\* three pieces
OnlyRecipientRaises(buf) ==
    last'.error =>
        (/\ buf # <<>>
         /\ buf[1].type = "USBSetupTransfer"
         /\ ~USBRequestRecipient_valid(buf[1].recipient))

\* C26: for each device the control request grouper never holds more than
\* three pieces, the one being consumed included, and at most two once
\* consume_packet has returned; the ValueError for a control request with
\* too many stages is never raised.
C26_AtMostThreePieces ==
    [][/\ AtMostTwoBuffered(decoders'.control)
       /\ RoundAt(STAGE_CONTROL) =>
              (/\ Len(ControlBuffer(Head(analysis_queue))) + 1 <= 3
               /\ OnlyRecipientRaises(ControlBuffer(Head(analysis_queue))))
      ]_vars

\* a request of three pieces was emitted and its device's buffer is empty
C26_Witness ==
    \E n \in DOMAIN enqueued :
        /\ enqueued[n].by = STAGE_CONTROL
        /\ enqueued[n].packet.type = "USBControlTransfer"
        /\ Len(enqueued[n].packet.subordinate_packets) = 3
        /\ Get(decoders.control,
               control_pipe_identifier_for_packet(enqueued[n].packet)) = <<>>

\* ------------------------------------------------------------------------
\* the transaction has a data stage, an ACK handshake and a data length that
\* is zero or no multiple of 8
ShortAcked(p) ==
    /\ p.data # NoData
    /\ p.handshake = PID_ACK
    /\ (Len(p.data) = 0 \/ Len(p.data) % 8 # 0)

\* the pipe of `packet` was flushed after `packet` was enqueued: the last
\* transfer emitted ends with it and the buffer is empty
FlushedWith(packet, e) ==
    /\ Len(e) >= 1
    /\ e[Len(e)].type = "USBDataTransfer"
    /\ e[Len(e)].subordinate_packets # <<>>
    /\ e[Len(e)].subordinate_packets[Len(e[Len(e)].subordinate_packets)]
           = packet
    /\ TransferBufferAfter(packet) = <<>>

\* `packet` stays at the end of its pipe's buffer and is in no transfer
\* emitted
StaysBuffered(packet, e) ==
    /\ TransferBufferAfter(packet) # <<>>
    /\ TransferBufferAfter(packet)[Len(TransferBufferAfter(packet))] = packet
    /\ \A k \in DOMAIN e : packet \notin Range(e[k].subordinate_packets)

\* C27: the transfer grouper that has enqueued a transaction that is no
\* SETUP flushes the pipe in the same call exactly when the transaction has
\* a data stage, an ACK handshake and a data length that is zero or no
\* multiple of 8; any other transaction stays buffered.
C27_ShortPacketConcludes ==
    [][(/\ RoundAt(STAGE_TRANSFER)
        /\ Head(analysis_queue).type = "USBDataTransaction") =>
          (/\ ~last'.error
           /\ Head(analysis_queue).token # PID_SETUP
           /\ IF ShortAcked(Head(analysis_queue))
              THEN FlushedWith(Head(analysis_queue),
                               RoundEmitted(STAGE_TRANSFER))
              ELSE StaysBuffered(Head(analysis_queue),
                                 RoundEmitted(STAGE_TRANSFER)))]_vars

\* a zero-length ACKed transaction was flushed with its transfer, and a full
\* ACKed transaction waits in a buffer
C27_Witness ==
    /\ \E n \in DOMAIN enqueued :
           /\ enqueued[n].by = STAGE_TRANSFER
           /\ enqueued[n].packet.type = "USBDataTransfer"
           /\ Len(enqueued[n].packet.subordinate_packets) > 1
           /\ enqueued[n].packet.subordinate_packets[
                  Len(enqueued[n].packet.subordinate_packets)].data = <<>>
    /\ \E pipe \in DOMAIN decoders.transfer :
           /\ decoders.transfer[pipe] # <<>>
           /\ FullAcked(decoders.transfer[pipe][Len(decoders.transfer[pipe])])

\* ------------------------------------------------------------------------
\* the last packet of `e` is the transaction made of `packets`, which ends
\* in the handshake `packet`
EndsTransaction(e, packets, packet) ==
    /\ e # <<>>
    /\ e[Len(e)].type = "USBTransaction"
    /\ e[Len(e)].subordinate_packets = packets
    /\ e[Len(e)].token = packets[1].pid
    /\ e[Len(e)].handshake = packet.pid

\* what the transaction decoder does with the handshake `packet` when it
\* holds `buf`
HandshakeEnds(packet, buf, e) ==
    /\ ~last'.error
    /\ decoders'.transaction = <<>>
    /\ IF buf # <<>> /\ buf[1].type = "USBTokenPacket"
       THEN /\ Len(e) = 1
            /\ EndsTransaction(e, Append(buf, packet), packet)
       ELSE /\ FlushedFirst(buf, e)
            /\ Len(e) = (IF buf = <<>> THEN 1 ELSE 2)
            /\ EndsTransaction(e, <<packet>>, packet)

\* C28: a handshake always ends a transaction.  After the transaction
\* decoder has consumed a handshake packet its buffer is empty: when the
\* first packet buffered is a token the handshake is appended and the whole
\* buffer is emitted as one USBTransaction that ends in the handshake;
\* otherwise what was buffered is flushed first and the handshake is emitted
\* in a transaction of its own.
C28_HandshakeEnds ==
    [][(/\ RoundAt(STAGE_TRANSACTION)
        /\ Head(analysis_queue).type = "USBHandshakePacket") =>
          HandshakeEnds(Head(analysis_queue), decoders.transaction,
                        RoundEmitted(STAGE_TRANSACTION))]_vars

\* a handshake that followed nothing was emitted in a transaction of its
\* own, and a handshake that followed a token and a data packet ended their
\* transaction
C28_Witness ==
    /\ decoders.transaction = <<>>
    /\ \E n \in DOMAIN enqueued :
           /\ enqueued[n].by = STAGE_TRANSACTION
           /\ Len(enqueued[n].packet.subordinate_packets) = 1
           /\ enqueued[n].packet.subordinate_packets[1].type
                  = "USBHandshakePacket"
    /\ \E n \in DOMAIN enqueued :
           /\ enqueued[n].by = STAGE_TRANSACTION
           /\ Len(enqueued[n].packet.subordinate_packets) = 3
           /\ enqueued[n].packet.subordinate_packets[1].type = "USBTokenPacket"
           /\ enqueued[n].packet.subordinate_packets[3].type
                  = "USBHandshakePacket"
           /\ enqueued[n].packet.handshake
                  = enqueued[n].packet.subordinate_packets[3].pid

\* ------------------------------------------------------------------------
\* the buffer is empty, a token, or a token and a data packet
TokenThenData(buf) ==
    /\ Len(buf) <= 2
    /\ Len(buf) >= 1 => buf[1].type = "USBTokenPacket"
    /\ Len(buf) = 2 => buf[2].type = "USBDataPacket"

\* C29: between the calls of its consume_packet the buffer of the
\* transaction decoder is empty, [token] or [token, data]; every
\* USBTransaction it has emitted has one, two or three subordinate packets,
\* and its data is set only when it has three.
C29_BufferShapes ==
    /\ TokenThenData(decoders.transaction)
    /\ \A n \in DOMAIN enqueued :
           enqueued[n].by = STAGE_TRANSACTION =>
               (/\ enqueued[n].packet.type = "USBTransaction"
                /\ Len(enqueued[n].packet.subordinate_packets) \in 1..3
                /\ enqueued[n].packet.data # NoData =>
                       Len(enqueued[n].packet.subordinate_packets) = 3)

\* a token and a data packet wait in the buffer after a transaction of
\* three packets with data was emitted
C29_Witness ==
    /\ Len(decoders.transaction) = 2
    /\ \E n \in DOMAIN enqueued :
           /\ enqueued[n].by = STAGE_TRANSACTION
           /\ Len(enqueued[n].packet.subordinate_packets) = 3
           /\ enqueued[n].packet.data # NoData

\* ------------------------------------------------------------------------
\* every transaction of `buf` has the direction of the first one
SameDirection(buf) ==
    \A k \in DOMAIN buf : buf[k].direction = buf[1].direction

\* the pipe's buffer once consume_packet has enqueued `packet`
EnqueuedOn(buf, packet) ==
    IF \/ packet_starts_new_transfer(buf, packet)
       \/ packet_seems_discontinuous(buf, packet)
    THEN <<packet>>
    ELSE Append(buf, packet)

\* C30: every transaction buffered on a pipe of the transfer grouper has
\* the direction of the first one buffered there, between the calls as well
\* as at the two places where consume_packet may call flush_queued_packets;
\* flush_queued_packets is therefore never called on a buffer of the control
\* endpoint whose last packet's direction differs from its first's.
C30_OneDirectionPerBuffer ==
    [][/\ \A pipe \in DOMAIN decoders'.transfer :
              SameDirection(decoders'.transfer[pipe])
       /\ RoundAt(STAGE_TRANSFER) =>
              (/\ SameDirection(TransferBuffer(Head(analysis_queue)))
               /\ SameDirection(EnqueuedOn(
                      TransferBuffer(Head(analysis_queue)),
                      Head(analysis_queue))))]_vars

\* an OUT transaction arrived on endpoint 0 while an IN transaction was
\* buffered: the IN transaction was emitted in a transfer of its own and the
\* buffer holds the OUT transaction alone
C30_Witness ==
    /\ \E n \in DOMAIN enqueued :
           /\ enqueued[n].by = STAGE_TRANSFER
           /\ enqueued[n].packet.type = "USBDataTransfer"
           /\ enqueued[n].packet.endpoint_number = 0
           /\ enqueued[n].packet.direction = DIR_IN
           /\ Len(enqueued[n].packet.subordinate_packets) = 1
    /\ \E pipe \in DOMAIN decoders.transfer :
           /\ Len(decoders.transfer[pipe]) = 1
           /\ decoders.transfer[pipe][1].endpoint_number = 0
           /\ decoders.transfer[pipe][1].direction = DIR_OUT
           /\ decoders.transfer[pipe][1].data = FullPayload

\* ------------------------------------------------------------------------
\* the transactions are of the same device and either both on endpoint 0
\* or on the same other endpoint in the same direction
SameTransferPipe(p, q) ==
    /\ p.device_address = q.device_address
    /\ \/ p.endpoint_number = 0 /\ q.endpoint_number = 0
       \/ /\ p.endpoint_number # 0
          /\ p.endpoint_number = q.endpoint_number
          /\ p.direction = q.direction

\* C32: two transactions are assigned to the same pipe of the transfer
\* grouper exactly when they have the same device address and are either
\* both on endpoint 0, whatever their directions, or on the same non-zero
\* endpoint in the same direction.
C32_SamePipe ==
    \A i, j \in DOMAIN consumed[STAGE_TRANSFER] :
        (transfer_pipe_identifier_for_packet(consumed[STAGE_TRANSFER][i])
             = transfer_pipe_identifier_for_packet(consumed[STAGE_TRANSFER][j]))
        <=> SameTransferPipe(consumed[STAGE_TRANSFER][i],
                             consumed[STAGE_TRANSFER][j])

\* the transfer grouper has taken transactions of both directions on
\* endpoint 0 and of both directions on endpoint 1
C32_Witness ==
    /\ \E i, j \in DOMAIN consumed[STAGE_TRANSFER] :
           /\ consumed[STAGE_TRANSFER][i].endpoint_number = 0
           /\ consumed[STAGE_TRANSFER][j].endpoint_number = 0
           /\ consumed[STAGE_TRANSFER][i].direction = DIR_IN
           /\ consumed[STAGE_TRANSFER][j].direction = DIR_OUT
    /\ \E i, j \in DOMAIN consumed[STAGE_TRANSFER] :
           /\ consumed[STAGE_TRANSFER][i].endpoint_number = 1
           /\ consumed[STAGE_TRANSFER][j].endpoint_number = 1
           /\ consumed[STAGE_TRANSFER][i].direction = DIR_IN
           /\ consumed[STAGE_TRANSFER][j].direction = DIR_OUT

\* ------------------------------------------------------------------------
\* the buffers `m` of a grouper without those of the pipes other than k
OnlyPipe(m, k) == [x \in {k} |-> Get(m, k)]

\* the buffers of pipe k are the same in m and n
SameBuffer(m, n, k) == Get(m, k) = Get(n, k)

\* the pieces are of the same device
SameControlPipe(p, q) == p.device_address = q.device_address

\* consume_packet of the transfer grouper when the buffers of the pipes
\* other than the packet's are taken away
TransferAlone(packet) ==
    USBTransferGrouper_consume_packet(
        [decoders EXCEPT !.transfer =
            OnlyPipe(@, transfer_pipe_identifier_for_packet(packet))],
        packet, next_id)

\* the same for the control request grouper
ControlAlone(packet) ==
    USBControlRequestGrouper_consume_packet(
        [decoders EXCEPT !.control =
            OnlyPipe(@, control_pipe_identifier_for_packet(packet))],
        packet, next_id)

\* stage s emitted in the step what `r` says, raised when `r` says so, and
\* left the buffer `own_after` that `r` leaves
AsAlone(s, r, own_after, alone_after) ==
    /\ RoundEmitted(s) = r.emitted
    /\ last'.error = r.error
    /\ own_after = alone_after

\* C31: consuming a packet changes only the buffer of the packet's own pipe
\* (transfer grouper: device address with endpoint and direction; control
\* request grouper: device address alone): every other buffer of the two
\* groupers is as before, the buffer that changed holds packets of that pipe
\* only, and what is emitted and left buffered is what consume_packet gives
\* when the buffers of all other pipes are taken away, so that the packets
\* emitted for a pipe depend on the packets of that pipe alone, however the
\* packets of other pipes are interleaved.
C31_PerPipeIsolation ==
    [][Round =>
          /\ \A pipe \in DOMAIN decoders.transfer \cup DOMAIN decoders'.transfer :
                 ~SameBuffer(decoders.transfer, decoders'.transfer, pipe)
                 => (/\ RoundAt(STAGE_TRANSFER)
                     /\ pipe = transfer_pipe_identifier_for_packet(
                                   Head(analysis_queue))
                     /\ \A q \in Range(Get(decoders.transfer, pipe))
                              \cup Range(Get(decoders'.transfer, pipe)) :
                            SameTransferPipe(q, Head(analysis_queue)))
          /\ \A pipe \in DOMAIN decoders.control \cup DOMAIN decoders'.control :
                 ~SameBuffer(decoders.control, decoders'.control, pipe)
                 => (/\ RoundAt(STAGE_CONTROL)
                     /\ pipe = control_pipe_identifier_for_packet(
                                   Head(analysis_queue))
                     /\ \A q \in Range(Get(decoders.control, pipe))
                              \cup Range(Get(decoders'.control, pipe)) :
                            SameControlPipe(q, Head(analysis_queue)))
          /\ RoundAt(STAGE_TRANSFER) =>
                 AsAlone(STAGE_TRANSFER,
                     TransferAlone(Head(analysis_queue)),
                     TransferBufferAfter(Head(analysis_queue)),
                     Get(TransferAlone(Head(analysis_queue)).d.transfer,
                         transfer_pipe_identifier_for_packet(
                             Head(analysis_queue))))
          /\ RoundAt(STAGE_CONTROL) =>
                 AsAlone(STAGE_CONTROL,
                     ControlAlone(Head(analysis_queue)),
                     ControlBufferAfter(Head(analysis_queue)),
                     Get(ControlAlone(Head(analysis_queue)).d.control,
                         control_pipe_identifier_for_packet(
                             Head(analysis_queue))))]_vars

\* the control request grouper has just taken the data stage of one device
\* while the setup stage of another was buffered, and the transfer grouper
\* holds a transaction of that other device on a pipe of its own
C31_Witness ==
    /\ last.by = STAGE_CONTROL
    /\ \E p, q \in DOMAIN decoders.control :
           /\ p # q
           /\ Len(decoders.control[p]) = 2
           /\ Len(decoders.control[q]) = 1
           /\ \E t \in DOMAIN decoders.transfer :
                  /\ decoders.transfer[t] # <<>>
                  /\ SameControlPipe(decoders.transfer[t][1],
                                     decoders.control[q][1])

\* ------------------------------------------------------------------------
\* the round's packet made the conglomerator flush a run of start-of-frames
FlushesRun == Round /\ RoundEmitted(STAGE_CONGLOMERATOR) # <<>>

\* C33: the USBStartOfFrameCollection of a run of start-of-frames reaches
\* the display before the packet that arrived after the run and made the
\* conglomerator flush it: in the round that queues the collection for its
\* pass through the decoders, that packet is not handed to the frontend.
C33_CollectionBeforeTrigger ==
    [][FlushesRun => Head(analysis_queue) \notin Range(data_queue')]_vars

\* ------------------------------------------------------------------------
\* the round takes a plain USBTransaction
TransactionRound == Round /\ Head(analysis_queue).type = "USBTransaction"

\* the payload has the eight bytes of the setup layout
HasSetupLayout(data) == data # NoData /\ Len(data) >= SETUP_DATA_LENGTH

\* the transaction specializer emitted one packet of class `cls`
SpecializedTo(cls, e) == Len(e) = 1 /\ e[1].type = cls

\* `e` carries what the transaction carried
SameTransaction(e, p) ==
    /\ e.token = p.token
    /\ e.data = p.data
    /\ e.handshake = p.handshake
    /\ e.subordinate_packets = p.subordinate_packets

\* C34: the transaction specializer consumes a plain USBTransaction exactly
\* when its token is SETUP, IN or OUT.  A SETUP transaction (with a payload
\* that has the setup layout) gives one USBSetupTransaction, an IN or OUT
\* transaction one USBDataTransaction with the same token, data, handshake
\* and subordinate packets; a transaction with any other token is consumed
\* by no decoder and reaches the frontend as the USBTransaction it is.
C34_SpecializesByToken ==
    [][TransactionRound =>
          /\ ~last'.error
          /\ last'.by = STAGE_TRANSACTION_SPECIALIZER
                 <=> Head(analysis_queue).token \in {PID_SETUP, PID_IN, PID_OUT}
          /\ (/\ Head(analysis_queue).token = PID_SETUP
              /\ HasSetupLayout(Head(analysis_queue).data))
                 => SpecializedTo("USBSetupTransaction",
                        RoundEmitted(STAGE_TRANSACTION_SPECIALIZER))
          /\ Head(analysis_queue).token \in {PID_IN, PID_OUT}
                 => (/\ SpecializedTo("USBDataTransaction",
                            RoundEmitted(STAGE_TRANSACTION_SPECIALIZER))
                     /\ SameTransaction(
                            RoundEmitted(STAGE_TRANSACTION_SPECIALIZER)[1],
                            Head(analysis_queue)))
          /\ Head(analysis_queue).token \notin {PID_SETUP, PID_IN, PID_OUT}
                 => (/\ last'.by = 0
                     /\ enqueued' = enqueued
                     /\ data_queue' = Append(data_queue,
                                             Head(analysis_queue)))]_vars

\* an IN transaction with data has been specialized and the transaction made
\* of a handshake out of sequence, whose token is the handshake's PID, has
\* reached the frontend as it was
C34_Witness ==
    /\ \E n \in DOMAIN enqueued :
           /\ enqueued[n].by = STAGE_TRANSACTION_SPECIALIZER
           /\ enqueued[n].packet.type = "USBDataTransaction"
           /\ enqueued[n].packet.token = PID_IN
           /\ enqueued[n].packet.data # NoData
           /\ Len(enqueued[n].packet.subordinate_packets) = 3
    /\ \E k \in DOMAIN data_queue :
           /\ data_queue[k].type = "USBTransaction"
           /\ data_queue[k].token = PID_ACK

\* ------------------------------------------------------------------------
\* the round takes a SETUP transaction whose payload is absent or shorter
\* than the setup layout
TruncatedSetupRound ==
    /\ TransactionRound
    /\ Head(analysis_queue).token = PID_SETUP
    /\ ~HasSetupLayout(Head(analysis_queue).data)

\* C35: a SETUP transaction whose data payload is absent or shorter than the
\* 8 bytes of the setup layout is consumed by the transaction specializer
\* and replaced by one MalformedPacket that has the transaction's
\* subordinate packets; no exception leaves the transaction specializer,
\* whatever the transaction.
C35_TruncatedSetupIsMalformed ==
    [][/\ TruncatedSetupRound =>
              (/\ last'.by = STAGE_TRANSACTION_SPECIALIZER
               /\ SpecializedTo("MalformedPacket",
                      RoundEmitted(STAGE_TRANSACTION_SPECIALIZER))
               /\ RoundEmitted(STAGE_TRANSACTION_SPECIALIZER)[1]
                      .subordinate_packets
                    = Head(analysis_queue).subordinate_packets)
       /\ (Round /\ STAGE_TRANSACTION_SPECIALIZER \in Range(last'.offered)
                 /\ last'.offered[Len(last'.offered)]
                        = STAGE_TRANSACTION_SPECIALIZER)
              => ~last'.error]_vars

\* the specializer has made a MalformedPacket of a SETUP transaction without
\* data, or one of a SETUP transaction with three bytes of data
C35_Witness ==
    /\ \E n \in DOMAIN enqueued :
           /\ enqueued[n].by = STAGE_TRANSACTION_SPECIALIZER
           /\ enqueued[n].packet.type = "MalformedPacket"
           /\ enqueued[n].packet.data = NoData
           /\ Len(enqueued[n].packet.subordinate_packets) = 2
    \/ \E n \in DOMAIN enqueued :
           /\ enqueued[n].by = STAGE_TRANSACTION_SPECIALIZER
           /\ enqueued[n].packet.type = "MalformedPacket"
           /\ enqueued[n].packet.data # NoData
           /\ Len(enqueued[n].packet.data) = 3
           /\ Len(enqueued[n].packet.subordinate_packets) = 3

----------------------------------------------------------------------------
(* The packet specializer alone, on every token of two payload bytes.      *)

Bytes == 0..255

\* one token packet, of each token PID and each payload of two bytes
TokenCapture(pid, b0, b1) == Stamp(<<from_raw_packet(pid, <<b0, b1>>)>>)

InitToken ==
    /\ descriptor = NewRequest
    /\ usbmon = NewUSBMon
    /\ \E pid \in {PID_SETUP, PID_IN, PID_OUT}, b0 \in Bytes, b1 \in Bytes :
          capture = TokenCapture(pid, b0, b1)
    /\ delineator = NewDelineator
    /\ backend_pos = 0
    /\ output_queue = <<>>
    /\ analysis_queue = <<>>
    /\ decoders = NewDecoders
    /\ data_queue = <<>>
    /\ pc = "loop"
    /\ frontend_alive = TRUE
    /\ backend_alive = TRUE
    /\ next_id = Len(capture) + 1
    /\ dequeued = <<>>
    /\ enqueued = <<>>
    /\ consumed = [i \in 0..NumStages |-> <<>>]
    /\ last = [id |-> 0, by |-> 0, offered |-> <<>>, error |-> FALSE]
    /\ termination_event = FALSE
    /\ worker = [pc |-> "test", setup |-> 0, run_capture |-> FALSE,
                 handle_termination |-> 0]

\* what consume_packet of the specializer hands to emit_packet
specialized(r) ==
    /\ enqueued' = [k \in DOMAIN r.emitted |->
                       [by |-> STAGE_SPECIALIZER, packet |-> r.emitted[k]]]
    /\ next_id' = next_id + Len(r.emitted)

\* USBPacketSpecializer.handle_packet on the captured packet
specialize_packet ==
    /\ enqueued = <<>>
    /\ USBPacketSpecializer_can_handle_packet(capture[1])
    /\ specialized(USBPacketSpecializer_consume_packet(decoders, capture[1],
                                                       next_id))
    /\ UNCHANGED <<others, capture, backend_pos, output_queue, analysis_queue,
                   decoders, data_queue, pc, frontend_alive, backend_alive,
                   dequeued, consumed, last, termination_event, worker>>

NextToken == specialize_packet

SpecToken == InitToken /\ [][NextToken]_vars

\* the fields of token `t` are those of the payload bytes b0 and b1, and the
\* bytes are those the fields give back
TokenOf(t, b0, b1) ==
    /\ t.type = "USBTokenPacket"
    /\ t.device_address = b0 % 128
    /\ t.endpoint_number = 2 * (b1 % 8) + (b0 \div 128)
    /\ t.crc5 = b1 \div 8
    /\ t.device_address \in 0..127
    /\ t.endpoint_number \in 0..15
    /\ t.crc5 \in 0..31
    /\ b0 = t.device_address + 128 * (t.endpoint_number % 2)
    /\ b1 = (t.endpoint_number \div 2) + 8 * t.crc5

\* C40: for every token payload of two bytes (b0, b1) the specializer gives
\* a token packet with device_address = b0 mod 128, endpoint_number =
\* 2 * (b1 mod 8) + (b0 div 128) and crc5 = b1 div 8; the three fields give
\* the two bytes back, so they determine the 16 bits; the direction is IN
\* exactly when the PID is IN.
C40_TokenFields ==
    \A n \in DOMAIN enqueued :
        (enqueued[n].by = STAGE_SPECIALIZER /\ capture[1].pid # PID_SOF
            /\ is_token(capture[1].pid) /\ Len(capture) = 1
            /\ Len(capture[1].data) = TOKEN_PAYLOAD_LENGTH)
        => (/\ TokenOf(enqueued[n].packet, capture[1].data[1],
                       capture[1].data[2])
            /\ enqueued[n].packet.direction \in {DIR_IN, DIR_OUT}
            /\ enqueued[n].packet.direction = DIR_IN
                   <=> capture[1].pid = PID_IN)

\* the token of an IN packet with the payload ff ff has been decoded
C40_Witness ==
    /\ Len(enqueued) = 1
    /\ capture[1].pid = PID_IN
    /\ capture[1].data = <<255, 255>>
    /\ enqueued[1].packet.endpoint_number = 15
    /\ enqueued[1].packet.direction = DIR_IN

----------------------------------------------------------------------------
(* backends/rhododendron.py: USBHackDelineator                             *)

\* the variables of the analyzer and its processes
analyzer_vars ==
    <<capture, backend_pos, output_queue, analysis_queue, decoders,
      data_queue, pc, frontend_alive, backend_alive, next_id, dequeued,
      enqueued, consumed, last, termination_event, worker>>

\* an analyzer constructed on a backend that captures nothing
NotCapturing ==
    /\ capture = <<>>
    /\ backend_pos = 0
    /\ output_queue = <<>>
    /\ analysis_queue = <<>>
    /\ decoders = NewDecoders
    /\ data_queue = <<>>
    /\ pc = "loop"
    /\ frontend_alive = TRUE
    /\ backend_alive = TRUE
    /\ next_id = 1
    /\ dequeued = <<>>
    /\ enqueued = <<>>
    /\ consumed = [i \in 0..NumStages |-> <<>>]
    /\ last = [id |-> 0, by |-> 0, offered |-> <<>>, error |-> FALSE]
    /\ termination_event = FALSE
    /\ worker = [pc |-> "test", setup |-> 0, run_capture |-> FALSE,
                 handle_termination |-> 0]

MaxSubmitLen == 3
MaxReceived  == 4

USB_CRC_POLYNOMIAL   == 98309
TOKEN_LENGTH         == 3
HANDSHAKE_LENGTH     == 1
TOKEN_PID_SUFFIX     == 1
HANDSHAKE_PID_SUFFIX == 2
DATA_PID_SUFFIX      == 3
SPECIAL_PID_SUFFIX   == 0
\* range(3, 515)
FIRST_LENGTH         == 3
END_OF_LENGTHS       == 515

\* a ^ b
RECURSIVE Xor(_, _)
Xor(a, b) ==
    IF a = 0 THEN b
    ELSE IF b = 0 THEN a
    ELSE ((a + b) % 2) + 2 * Xor(a \div 2, b \div 2)

\* the low n bits of v, in the opposite order
RECURSIVE Reversed(_, _)
Reversed(v, n) ==
    IF n = 0 THEN 0 ELSE ((v % 2) * (2 ^ (n - 1))) + Reversed(v \div 2, n - 1)

\* crcmod.mkCrcFun(USB_CRC_POLYNOMIAL): the bit-reversed algorithm on 16 bits,
\* started from 0xFFFF; `shifts` is how often the register is still to move
RECURSIVE crc_shift(_, _)
crc_shift(crc, shifts) ==
    IF shifts = 0 THEN crc
    ELSE crc_shift(IF crc % 2 = 1
                   THEN Xor(crc \div 2, Reversed(USB_CRC_POLYNOMIAL, 16))
                   ELSE crc \div 2,
                   shifts - 1)

RECURSIVE crc_update(_, _)
crc_update(crc, data) ==
    IF data = <<>> THEN crc
    ELSE crc_update(crc_shift(Xor(crc, Head(data)), 8), Tail(data))

inner_data_crc(data) == crc_update(65535, data)

\* USBHackDelineator.data_crc
data_crc(data) == Xor(inner_data_crc(data), 65535)

\* USBHackDelineator.is_valid_pid
is_valid_pid(byte) == byte % 16 = 15 - (byte \div 16)

\* del pending_data[0:length] and emit_packet of what was there
emit_first(d, length) ==
    [d EXCEPT !.pending_data = SubSeq(@, length + 1, Len(@)),
              !.emitted = Append(@, SubSeq(d.pending_data, 1, length))]

\* divine_boundaries has returned
returned(d) == [d EXCEPT !.pc = "idle", !.length = 0]

\* divine_boundaries, from the test of its `while` to the next test, to the
\* return or to the head of the scan of lengths
while_pending_data(d) ==
    IF d.pending_data = <<>> THEN returned(d)
    ELSE IF ~is_valid_pid(d.pending_data[1])
    THEN [d EXCEPT !.pending_data = Tail(@)]
    ELSE IF d.pending_data[1] % 4 = TOKEN_PID_SUFFIX
    THEN IF Len(d.pending_data) < TOKEN_LENGTH THEN returned(d)
         ELSE emit_first(d, TOKEN_LENGTH)
    ELSE IF d.pending_data[1] % 4 = HANDSHAKE_PID_SUFFIX
    THEN emit_first(d, HANDSHAKE_LENGTH)
    ELSE IF d.pending_data[1] % 4 = SPECIAL_PID_SUFFIX
    THEN emit_first(d, HANDSHAKE_LENGTH)
    ELSE IF /\ d.pending_data[1] % 4 = DATA_PID_SUFFIX
            /\ Len(d.pending_data) >= 3
    THEN [d EXCEPT !.pc = "for", !.length = FIRST_LENGTH]
    ELSE d

\* one turn of `for length in range(3, 515)`, or its end; a match is emitted
\* and the scan goes on, over what is left of pending_data
for_length(d) ==
    IF d.length >= END_OF_LENGTHS THEN [d EXCEPT !.pc = "while", !.length = 0]
    ELSE IF d.length > Len(d.pending_data) THEN returned(d)
    ELSE IF data_crc(SubSeq(d.pending_data, 2, d.length - 2))
            = d.pending_data[d.length - 1] + 256 * d.pending_data[d.length]
    THEN [emit_first(d, d.length) EXCEPT !.length = @ + 1]
    ELSE [d EXCEPT !.length = @ + 1]

\* an invalid PID, SETUP, ACK, a special PID, DATA0 and SOF
DelineatorBytes == {0, 45, 210, 240, 195, 165}

SubmittedData ==
    UNION {[1..n -> DelineatorBytes] : n \in 1..MaxSubmitLen}

InitDelineator ==
    /\ NotCapturing
    /\ descriptor = NewRequest
    /\ delineator = NewDelineator
    /\ usbmon = NewUSBMon

\* USBHackDelineator.submit_data, up to its call of divine_boundaries
submit_data ==
    /\ delineator.pc = "idle"
    /\ \E data \in SubmittedData :
          /\ delineator.received + Len(data) <= MaxReceived
          /\ delineator' = [delineator EXCEPT
                               !.pending_data = @ \o data,
                               !.pc = "while",
                               !.received = @ + Len(data)]
    /\ UNCHANGED <<analyzer_vars, usbmon, descriptor>>

divine_boundaries ==
    /\ delineator.pc = "while"
    /\ delineator' = while_pending_data(delineator)
    /\ UNCHANGED <<analyzer_vars, usbmon, descriptor>>

try_length ==
    /\ delineator.pc = "for"
    /\ delineator' = for_length(delineator)
    /\ UNCHANGED <<analyzer_vars, usbmon, descriptor>>

NextDelineator ==
    \/ submit_data
    \/ divine_boundaries
    \/ try_length

SpecDelineator == InitDelineator /\ [][NextDelineator]_vars

\* C38: submit_data returns for every input: no turn of divine_boundaries'
\* loop leaves the delineator as it found it (the loop would then take the
\* same turn for ever), so that pending data that ends in an incomplete
\* packet makes it return and stays pending.
C38_SubmitDataReturns ==
    delineator.pc = "while"
        => while_pending_data(delineator) # delineator

----------------------------------------------------------------------------
(* backends/usbmon.py: USBMonBackend                                       *)

MaxEvents == 3

\* errno.EPIPE
EPIPE == 32

URBTags == {1, 2}

\* what USBMonEvent.from_raw_packet and apply_data make of one event of the
\* stream: the n-th event, of the given type, with the header fields the
\* handlers read.  A submission of a control URB carries the request type,
\* a callback the status, and both the direction and the payload
USBMonEvent(n, tag, event_type, transfer_type, dir, status, length, data, rt) ==
    [serial |-> n, urb_tag |-> tag, event_type |-> event_type,
     transfer_type |-> transfer_type, direction |-> dir,
     endpoint_number |-> 0, device_address |-> 5, status |-> status,
     length |-> length, data |-> data,
     request_type_or_error_count |-> rt,
     request_number_or_desc_number |-> 6, value |-> 256, index |-> 0,
     request_length |-> 18]

\* (length, data) of an event: nothing, a length with no payload captured,
\* a payload
Payloads39 == {<<0, <<>>>>, <<1, <<>>>>, <<1, <<7>>>>}

USBMonEvents(n) ==
    {USBMonEvent(n, tag, "S", "CONTROL", request_type \div 128, 0, p[1],
                 p[2], request_type) :
        tag \in URBTags, request_type \in {0, 128, 16},
        p \in {<<0, <<>>>>, <<1, <<7>>>>}}
    \cup {USBMonEvent(n, tag, "S", "BULK", dir, 0, p[1], p[2], 0) :
        tag \in URBTags, dir \in {DIR_OUT, DIR_IN},
        p \in {<<0, <<>>>>, <<1, <<7>>>>}}
    \cup {USBMonEvent(n, tag, "C", transfer_type, dir, status, p[1], p[2], 0) :
        tag \in URBTags, transfer_type \in {"CONTROL", "BULK"},
        dir \in {DIR_OUT, DIR_IN}, status \in {0, -EPIPE}, p \in Payloads39}
    \cup {USBMonEvent(n, tag, "E", "BULK", DIR_OUT, 0, 0, <<>>, 0) :
        tag \in URBTags}

\* TransferType.associated_data_transfer_type
associated_data_transfer_type(transfer_type) ==
    CASE transfer_type = "ISOCHRONOUS" -> "USBIsochronousTransfer"
      [] transfer_type = "INTERRUPT"   -> "USBInterruptTransfer"
      [] transfer_type = "CONTROL"     -> "USBDataTransfer"
      [] transfer_type = "BULK"        -> "USBBulkTransfer"

\* USBMonBackend._get_handshake_for_event
get_handshake_for_event(event) ==
    IF event.status = 0 THEN PID_ACK
    ELSE IF event.status = -EPIPE THEN PID_STALL
    ELSE PID_NAK

\* USBMonBackend._common_packet_fields_for_event; the timestamp of an event
\* is its place in the stream
common_packet_fields_for_event(event) ==
    [[f \in ModelFields |-> NoneOf(f)] EXCEPT
        !.timestamp       = event.serial,
        !.handshake       = get_handshake_for_event(event),
        !.endpoint_number = event.endpoint_number,
        !.direction       = event.direction,
        !.device_address  = event.device_address,
        !.data            = event.data]

\* USBMonBackend._generate_data_transfer_for_event; `stall` is "None" when
\* the argument is not given, else "True" or "False" as its truth value
generate_data_transfer_for_event(event, stall, nid) ==
    USBDataTransfer_validate(
        init_fields(associated_data_transfer_type(event.transfer_type),
                    [common_packet_fields_for_event(event) EXCEPT
                        !.handshake = IF stall = "None" THEN @
                                      ELSE IF stall = "True" THEN PID_STALL
                                      ELSE PID_ACK],
                    nid))

\* USBMonBackend._generate_orphaned_transfer_for_event
generate_orphaned_transfer_for_event(event, nid) ==
    init_fields("USBTransferFragment", common_packet_fields_for_event(event),
                nid)

\* USBMonBackend._generate_status_transfer
generate_status_transfer(event, nid) ==
    init_fields("USBStatusTransfer",
                [common_packet_fields_for_event(event) EXCEPT
                    !.pid  = get_handshake_for_event(event),
                    !.data = NoData],
                nid)

\* USBMonEvent.get_setup_data: struct.pack("<BBHHH", ...)
get_setup_data(event) ==
    <<event.request_type_or_error_count, event.request_number_or_desc_number,
      event.value % 256, event.value \div 256,
      event.index % 256, event.index \div 256,
      event.request_length % 256, event.request_length \div 256>>

\* USBRequestRecipient.from_request_type raises ValueError when the five low
\* bits are no member of the enumeration
from_request_type_raises(request_type_packed) ==
    ~USBRequestRecipient_valid(request_type_packed % 32)

\* USBMonBackend._generate_setup_transfer_for_submission, when it does not
\* raise
generate_setup_transfer_for_submission(submission, nid) ==
    new_USBSetupTransaction(
        "USBSetupTransfer",
        [common_packet_fields_for_event(submission) EXCEPT
            !.direction         = DIR_OUT,
            !.request_direction = submission.request_type_or_error_count
                                      \div 128,
            !.request_number    = submission.request_number_or_desc_number,
            !.request_type      = (submission.request_type_or_error_count
                                      \div 32) % 4,
            !.recipient         = submission.request_type_or_error_count % 32,
            !.value             = submission.value,
            !.index             = submission.index,
            !.request_length    = submission.request_length,
            !.data              = get_setup_data(submission),
            !.token             = PID_SETUP,
            !.handshake         = PID_ACK],
        nid)

\* the data and status stages of _generate_control_transfer_for_events and
\* its call of from_subordinates: `data_source` is the submission with the
\* callback's status for an OUT request, the callback for an IN request
control_transfer_stages(setup_transfer, data_source, callback, nid) ==
    IF data_source.data # <<>>
    THEN IF callback.status # 0 /\ callback.direction = DIR_IN
         THEN from_subordinates(
                  from_subordinates_fields(
                      setup_transfer,
                      <<generate_data_transfer_for_event(data_source, "True",
                                                         nid + 1)>>,
                      <<>>),
                  nid + 3)
         ELSE from_subordinates(
                  from_subordinates_fields(
                      setup_transfer,
                      <<generate_data_transfer_for_event(data_source, "False",
                                                         nid + 1)>>,
                      <<generate_status_transfer(callback, nid + 2)>>),
                  nid + 3)
    ELSE from_subordinates(
             from_subordinates_fields(
                 setup_transfer, <<>>,
                 <<generate_status_transfer(callback, nid + 2)>>),
             nid + 3)

\* USBMonBackend._generate_control_transfer_for_events: what it returns, or
\* that it raises
generate_control_transfer_for_events(submission, callback, nid) ==
    IF from_request_type_raises(submission.request_type_or_error_count)
    THEN [emitted |-> <<>>, error |-> TRUE]
    ELSE control_transfer_stages(
             generate_setup_transfer_for_submission(submission, nid),
             IF submission.request_type_or_error_count \div 128 = DIR_OUT
             THEN [submission EXCEPT !.status = callback.status]
             ELSE callback,
             callback, nid)

\* _handle_callback_event from the three cases to the transfer it hands to
\* emit_packet; `submission` is <<>> when pending_urbs.pop raised KeyError,
\* else <<the event popped>>
transfer_for_callback(submission, callback, nid) ==
    IF callback.transfer_type = "CONTROL"
    THEN IF submission # <<>>
         THEN generate_control_transfer_for_events(submission[1], callback,
                                                   nid)
         ELSE [emitted |-> <<generate_orphaned_transfer_for_event(callback,
                                                                   nid)>>,
               error |-> FALSE]
    ELSE IF callback.direction = DIR_OUT
    THEN IF submission # <<>>
         THEN [emitted |-> <<generate_data_transfer_for_event(
                                 [submission[1] EXCEPT
                                     !.status = callback.status],
                                 "None", nid)>>,
               error |-> FALSE]
         ELSE IF callback.data # <<>> \/ callback.length = 0
         THEN [emitted |-> <<generate_data_transfer_for_event(callback, "None",
                                                               nid)>>,
               error |-> FALSE]
         ELSE [emitted |-> <<generate_orphaned_transfer_for_event(callback,
                                                                   nid)>>,
               error |-> FALSE]
    ELSE [emitted |-> <<generate_data_transfer_for_event(callback, "None",
                                                          nid)>>,
          error |-> FALSE]

\* pending_urbs.pop(tag), or None
popped(pending_urbs, tag) ==
    IF tag \in DOMAIN pending_urbs THEN <<pending_urbs[tag]>> ELSE <<>>

\* the backend after the callback has been handled with `submission` popped
\* and `r` the outcome of building its transfer
after_callback(callback, submission, r) ==
    [usbmon EXCEPT
        !.pending_urbs = [t \in (DOMAIN @) \ {callback.urb_tag} |-> @[t]],
        !.events  = Append(@, callback),
        !.emitted = IF r.error THEN @
                    ELSE Append(@, [transfer   |-> r.emitted[1],
                                    callback   |-> callback.serial,
                                    submission |->
                                        IF submission = <<>> THEN 0
                                        ELSE submission[1].serial]),
        !.raised  = r.error,
        !.next_id = @ + 4]

InitUSBMon ==
    /\ NotCapturing
    /\ descriptor = NewRequest
    /\ delineator = NewDelineator
    /\ usbmon = NewUSBMon

\* handle_data has another event to handle
NextEvent(event_type) ==
    {e \in USBMonEvents(Len(usbmon.events) + 1) : e.event_type = event_type}

handle_data_enabled ==
    /\ ~usbmon.raised
    /\ Len(usbmon.events) < MaxEvents

\* USBMonBackend._handle_submission_event
handle_submission_event ==
    /\ handle_data_enabled
    /\ \E event \in NextEvent("S") :
          usbmon' = [usbmon EXCEPT
                        !.pending_urbs =
                            [t \in (DOMAIN @) \cup {event.urb_tag} |->
                                IF t = event.urb_tag THEN event ELSE @[t]],
                        !.events = Append(@, event)]
    /\ UNCHANGED <<analyzer_vars, delineator, descriptor>>

\* USBMonBackend._handle_callback_event
handle_callback_event ==
    /\ handle_data_enabled
    /\ \E callback \in NextEvent("C") :
          usbmon' = after_callback(
                        callback,
                        popped(usbmon.pending_urbs, callback.urb_tag),
                        transfer_for_callback(
                            popped(usbmon.pending_urbs, callback.urb_tag),
                            callback, usbmon.next_id))
    /\ UNCHANGED <<analyzer_vars, delineator, descriptor>>

\* USBMonBackend._handle_error_event: the event is printed
handle_error_event ==
    /\ handle_data_enabled
    /\ \E event \in NextEvent("E") :
          usbmon' = [usbmon EXCEPT !.events = Append(@, event)]
    /\ UNCHANGED <<analyzer_vars, delineator, descriptor>>

NextUSBMon ==
    \/ handle_submission_event
    \/ handle_callback_event
    \/ handle_error_event

SpecUSBMon == InitUSBMon /\ [][NextUSBMon]_vars

\* the events handled so far, by their place in the stream
Handled == DOMAIN usbmon.events

\* what emit_packet received while event k was handled
EmittedFor(k) == SelectSeq(usbmon.emitted, LAMBDA e : e.callback = k)

\* the place of the submission that is pending for `tag` just before event
\* k: the last submission of the tag before k with no callback of the tag
\* between the two; 0 when there is none
PendingBefore(tag, k) ==
    LET of_tag == {j \in 1..(k - 1) : /\ usbmon.events[j].urb_tag = tag
                                      /\ usbmon.events[j].event_type
                                             \in {"S", "C"}}
        latest == CHOOSE j \in of_tag : \A i \in of_tag : i <= j
    IN  IF of_tag = {} THEN 0
        ELSE IF usbmon.events[latest].event_type = "S" THEN latest
        ELSE 0

\* SUBMISSION and ERROR events emit nothing, a CALLBACK exactly one packet
C39_OnePacketPerCallback ==
    \A k \in Handled :
        Len(EmittedFor(k)) =
            IF usbmon.events[k].event_type = "C" THEN 1 ELSE 0

\* pending_urbs holds the tags with a submission and no later callback
C39_PendingExact ==
    DOMAIN usbmon.pending_urbs =
        {tag \in URBTags : PendingBefore(tag, Len(usbmon.events) + 1) # 0}

\* a callback is paired with the most recent submission of its tag
C39_Paired ==
    \A k \in DOMAIN usbmon.emitted :
        usbmon.emitted[k].submission =
            PendingBefore(usbmon.events[usbmon.emitted[k].callback].urb_tag,
                          usbmon.emitted[k].callback)

\* a callback without a pending submission is emitted as an orphaned fragment
C39_OrphansAreFragments ==
    \A k \in DOMAIN usbmon.emitted :
        (usbmon.emitted[k].submission = 0)
            => usbmon.emitted[k].transfer.type = "USBTransferFragment"

\* C39: in the usbmon backend SUBMISSION and ERROR events emit no packet and
\* every CALLBACK event emits exactly one; pending_urbs holds exactly the URB
\* tags that have had a SUBMISSION and no later CALLBACK; a callback is paired
\* with the most recent submission of its tag, and a callback without a
\* pending submission is emitted as an orphaned fragment.
C39_CallbacksPairAndEmit ==
    /\ C39_OnePacketPerCallback
    /\ C39_PendingExact
    /\ C39_Paired
    /\ C39_OrphansAreFragments

----------------------------------------------------------------------------
(* descriptor.py and decoders/standard_descriptors.py: a configuration     *)
(* descriptor and its subordinate descriptors.  The loop that fills        *)
(* `subordinates` is the loop of DescriptorTransfer.get_detail_fields,     *)
(* which appends {description, decoded, raw} for every structure it        *)
(* recognizes and hands each call of handle_data_remaining_after_decode    *)
(* the number of subordinates found so far.  A subordinate is kept as its  *)
(* descriptor number, its raw form and the interface descriptor that was   *)
(* looked up to decode it (its place in the list; 0: None was returned;    *)
(* IntNone: none was looked up).                                           *)

MaxPieces       == 3
MaxSubordinates == 4

CDC_CLASS_NUMBER == 2
\* DESCRIPTOR_SUBTYPE of the subclasses of GetClassSpecificDescriptorRequest
CDCSubtypes == {0, 1, 2, 6}

\* data[n:] and data[:n]
Drop(data, n) ==
    IF n >= Len(data) THEN <<>> ELSE SubSeq(data, n + 1, Len(data))
Take(data, n) ==
    IF n >= Len(data) THEN data ELSE SubSeq(data, 1, n)

\* BINARY_FORMAT.parse(data) of a class whose descriptor number is data[1]:
\* every field after the first two is optional
BINARY_FORMAT_parse(data) ==
    [parsed          |-> TRUE,
     bLength         |-> data[1],
     bDescriptorType |-> data[2],
     bInterfaceClass |-> IF Len(data) >= 6 THEN data[6] ELSE IntNone]

\* data[:length] as the raw form of a descriptor no class handles
raw_bytes(data, length) ==
    [parsed          |-> FALSE,
     bLength         |-> Len(Take(data, length)),
     bDescriptorType |-> IntNone,
     bInterfaceClass |-> IntNone]

\* DescriptorTransfer.decode_data_as_descriptor: (the table or None, the
\* number of bytes parsed)
decode_data_as_descriptor(data) ==
    IF data = <<>> THEN [table |-> <<>>, length |-> 0]
    ELSE [table  |-> <<BINARY_FORMAT_parse(data)>>,
          length |-> IF Len(data) < data[1] THEN Len(data) ELSE data[1]]

\* DescriptorTransfer.get_descriptor_number
get_descriptor_number(cls) ==
    (SelectSeq(DescriptorRequests, LAMBDA e : e.cls = cls))[1].number

\* the loop of find_last_descriptor from the k-th subordinate on: a raw form
\* that is a byte string raises TypeError and None is returned
RECURSIVE find_last_from(_, _, _, _, _)
find_last_from(subordinates, k, descriptor_number, subordinate_number, found) ==
    IF k > Len(subordinates) THEN found
    ELSE IF ~subordinates[k].raw.parsed THEN 0
    ELSE IF subordinates[k].raw.bDescriptorType # descriptor_number
    THEN find_last_from(subordinates, k + 1, descriptor_number,
                        subordinate_number, found)
    ELSE IF /\ subordinate_number # IntNone
            /\ subordinate_number # 0
            /\ k - 1 >= subordinate_number
    THEN found
    ELSE find_last_from(subordinates, k + 1, descriptor_number,
                        subordinate_number, k)

\* GetConfigurationDescriptorRequest.find_last_descriptor
find_last_descriptor(subordinates, descriptor_number, subordinate_number) ==
    find_last_from(subordinates, 1, descriptor_number, subordinate_number, 0)

\* GetConfigurationDescriptorRequest.find_last_interface_descriptor
find_last_interface_descriptor(subordinates, subordinate_number) ==
    find_last_descriptor(subordinates,
                         get_descriptor_number("GetInterfaceDescriptorRequest"),
                         subordinate_number)

\* GetClassSpecificDescriptorRequest.find_specialized_descriptor finds a
\* subclass for the interface descriptor at place `interface`
find_specialized_descriptor(subordinates, data, interface) ==
    /\ interface # 0
    /\ subordinates[interface].raw.bInterfaceClass = CDC_CLASS_NUMBER
    /\ data[3] \in CDCSubtypes

\* GetClassSpecificDescriptorRequest.decode_data_as_descriptor with
\* decode_as_specialized_descriptor: the interface looked up, the decoding
\* and whether it raises.  The generic BINARY_FORMAT ends with
\* Bytes(this.bLength), which raises StreamError when fewer bytes follow
\* the three fields before it
decode_class_specific(subordinates, data, subordinate_number) ==
    IF Len(data) < 3
    THEN [interface |-> IntNone,
          raises    |-> data[1] > 0,
          decoded   |-> decode_data_as_descriptor(data)]
    ELSE [interface |-> find_last_interface_descriptor(subordinates,
                                                       subordinate_number),
          raises    |->
              /\ ~find_specialized_descriptor(
                     subordinates, data,
                     find_last_interface_descriptor(subordinates,
                                                    subordinate_number))
              /\ Len(data) - 3 < data[1],
          decoded   |-> decode_data_as_descriptor(data)]

\* what handle_data_remaining_after_decode returns for a descriptor of the
\* class-specific class: `decoded` comes from the call without a subordinate
\* number, `raw` from the call with it
class_specific_remaining(pretty, raw) ==
    [raises       |-> pretty.raises \/ raw.raises,
     table        |-> pretty.decoded.table,
     subordinate  |-> [number    |-> 36,
                       raw       |-> raw.decoded.table[1],
                       interface |-> raw.interface],
     bytes_parsed |-> pretty.decoded.length]

\* GetConfigurationDescriptorRequest.handle_data_remaining_after_decode:
\* whether it raises, whether its table is true, the subordinate it
\* describes and the number of bytes parsed
handle_data_remaining_after_decode(subordinates, data, subordinate_number) ==
    IF Len(data) < 2
    THEN [raises |-> FALSE, table |-> <<>>, subordinate |-> <<>>,
          bytes_parsed |-> 0]
    ELSE IF data[2] = get_descriptor_number(
                          "GetClassSpecificDescriptorRequest")
    THEN class_specific_remaining(
             decode_class_specific(subordinates, data, IntNone),
             decode_class_specific(subordinates, data, subordinate_number))
    ELSE IF \E k \in DOMAIN DescriptorRequests :
                DescriptorRequests[k].number = data[2]
    THEN [raises       |-> FALSE,
          table        |-> decode_data_as_descriptor(data).table,
          subordinate  |-> [number    |-> data[2],
                            raw       |-> BINARY_FORMAT_parse(data),
                            interface |-> IntNone],
          bytes_parsed |-> decode_data_as_descriptor(data).length]
    ELSE [raises       |-> FALSE,
          table        |-> Take(data, data[1]),
          subordinate  |-> [number    |-> data[2],
                            raw       |-> raw_bytes(data, data[1]),
                            interface |-> IntNone],
          bytes_parsed |-> data[1]]

\* a configuration descriptor of nine bytes
ConfigurationHead == <<9, 2, 32, 0, 1, 1, 0, 128, 50>>

\* what may follow it: an interface descriptor of class 2, a descriptor of
\* a type no class handles (11), the same with bLength 0, a CDC header
\* functional descriptor, a class-specific and an interface descriptor with
\* bLength 0, an endpoint descriptor cut after its second byte, a lone byte
Pieces ==
    {<<9, 4, 0, 0, 1, 2, 2, 1, 0>>, <<2, 11>>, <<0, 11>>,
     <<5, 36, 0, 16, 1>>, <<0, 36, 0>>, <<0, 4>>, <<7, 5>>, <<7>>}

RECURSIVE Joined(_)
Joined(pieces) ==
    IF pieces = <<>> THEN <<>> ELSE Head(pieces) \o Joined(Tail(pieces))

InitDescriptor ==
    /\ NotCapturing
    /\ delineator = NewDelineator
    /\ usbmon = NewUSBMon
    /\ \E n \in 0..MaxPieces :
          \E pieces \in [1..n -> Pieces] :
              descriptor = [data |-> ConfigurationHead \o Joined(pieces),
                         subordinates |-> <<>>, pc |-> "head"]

\* the descriptor itself is decoded and, when that gave a table, the bytes
\* parsed are clipped off
get_decoded_descriptor ==
    /\ descriptor.pc = "head"
    /\ descriptor' =
          IF decode_data_as_descriptor(descriptor.data).table = <<>>
          THEN [descriptor EXCEPT !.pc = "done"]
          ELSE [descriptor EXCEPT
                   !.pc = "while",
                   !.data = Drop(@, decode_data_as_descriptor(
                                        descriptor.data).length)]
    /\ UNCHANGED <<analyzer_vars, delineator, usbmon>>

\* the descriptor after one turn of the loop that returned `r`
after_remaining(r) ==
    IF r.raises THEN [descriptor EXCEPT !.pc = "raised"]
    ELSE IF r.table = <<>> THEN [descriptor EXCEPT !.pc = "done"]
    ELSE [descriptor EXCEPT
             !.subordinates = Append(@, r.subordinate),
             !.data = Drop(@, r.bytes_parsed)]

\* one turn of `while table_or_string`: the call of
\* handle_data_remaining_after_decode on what is left, the append of what
\* it found, and the clip of the bytes it parsed
parse_subordinate ==
    /\ descriptor.pc = "while"
    /\ Len(descriptor.subordinates) < MaxSubordinates
    /\ descriptor' = after_remaining(
                      handle_data_remaining_after_decode(
                          descriptor.subordinates, descriptor.data,
                          Len(descriptor.subordinates)))
    /\ UNCHANGED <<analyzer_vars, delineator, usbmon>>

NextDescriptor ==
    \/ get_decoded_descriptor
    \/ parse_subordinate

SpecDescriptor == InitDescriptor /\ [][NextDescriptor]_vars

\* C36: the loop over the subordinate descriptors terminates: every turn
\* stops the loop or leaves fewer bytes than it found, also when the
\* structure at the head of what is left declares bLength = 0 or a length
\* larger than what is left.
C36_DecodeLoopTerminates ==
    (descriptor.pc = "while")
        => \/ after_remaining(
                  handle_data_remaining_after_decode(
                      descriptor.subordinates, descriptor.data,
                      Len(descriptor.subordinates))).pc # "while"
           \/ Len(after_remaining(
                      handle_data_remaining_after_decode(
                          descriptor.subordinates, descriptor.data,
                          Len(descriptor.subordinates))).data)
                  < Len(descriptor.data)

\* the interface descriptors before the subordinate at place i
InterfacesBefore(i) ==
    {j \in 1..(i - 1) :
        /\ descriptor.subordinates[j].raw.parsed
        /\ descriptor.subordinates[j].number
               = get_descriptor_number("GetInterfaceDescriptorRequest")}

\* C37: the interface descriptor looked up to decode a class-specific
\* subordinate is the last interface descriptor before it, whatever else
\* lies before or between them, and none when no interface descriptor
\* comes before it.
C37_DispatchOnLastInterface ==
    \A i \in DOMAIN descriptor.subordinates :
        (descriptor.subordinates[i].interface # IntNone)
            => IF InterfacesBefore(i) = {}
               THEN descriptor.subordinates[i].interface = 0
               ELSE /\ descriptor.subordinates[i].interface \in InterfacesBefore(i)
                    /\ \A j \in InterfacesBefore(i) :
                           j <= descriptor.subordinates[i].interface

====
